---- MODULE Spec2Model ----
(***************************************************************************)
(* A model of toml11's serializer (include/toml11/serializer.hpp).         *)
(*                                                                         *)
(* Text is a sequence of byte values (char codes), so that the arithmetic  *)
(* of the escape routines ('0' + c / 16) and std::string::pop_back are     *)
(* modelled as written.  The serializer's fields are the variables spec_,  *)
(* force_inline_, current_indent_ and keys_.                               *)
(***************************************************************************)
EXTENDS Integers, Sequences, FiniteSets, TLC

VARIABLES
    spec_,            \* serializer::spec_ (the fields the serializer reads)
    force_inline_,    \* serializer::force_inline_
    current_indent_,  \* serializer::current_indent_
    keys_,            \* serializer::keys_
    pc,               \* position of the call in progress
    arg,              \* the arguments of the call
    retval,           \* escape_ml_basic_string's local buffer
    replaced,         \* history: iterations of the triple-quote loop so far
    result            \* what the call returned, or the error it threw

vars == <<spec_, force_inline_, current_indent_, keys_, pc, arg, retval,
          replaced, result>>

(***************************************************************************)
(* Bounds of the model.                                                    *)
(***************************************************************************)
MaxStrLen == 5

\* The bytes strings are drawn from: '"', '\', LF, ESC and 'a'.
Alphabet == {34, 92, 10, 27, 97}

RECURSIVE StringsOfLen(_)
StringsOfLen(n) ==
    IF n = 0 THEN {<<>>}
    ELSE {Append(s, c) : s \in StringsOfLen(n - 1), c \in Alphabet}

Strings == UNION {StringsOfLen(n) : n \in 0..MaxStrLen}

\* The specification levels: the flags of toml::spec the serializer reads.
SpecLevel(e, x, suffix, null) ==
    [v1_1_0_add_escape_sequence_e |-> e,
     v1_1_0_add_escape_sequence_x |-> x,
     ext_num_suffix |-> suffix,
     ext_null_value |-> null]

DefaultSpec == SpecLevel(FALSE, FALSE, FALSE, FALSE)

(***************************************************************************)
(* Outcomes of a call: a returned string, or the error thrown.             *)
(***************************************************************************)
Returned(str) == [err |-> "none", str |-> str]
Thrown(kind)  == [err |-> kind, str |-> <<>>]
NoResult      == [err |-> "pending", str |-> <<>>]

(***************************************************************************)
(* String escaping.                                                        *)
(***************************************************************************)
IsControl(c) == (0 <= c /\ c <= 8) \/ (10 <= c /\ c <= 31) \/ c = 127

\* EscapeControl with lower case hex digits.
EscapeControlLowerCase(sp, c) ==
    LET c1 == c \div 16
        c2 == c % 16
    IN  (IF sp.v1_1_0_add_escape_sequence_x THEN <<92, 120>>
                                            ELSE <<92, 117, 48, 48>>)
        \o <<48 + c1>>
        \o (IF c2 < 10 THEN <<48 + c2>> ELSE <<97 + (c2 - 10)>>)

\* "\xHH" or "\u00HH" of a control byte, with upper case hex digits.
EscapeControl(sp, c) ==
    LET c1 == c \div 16
        c2 == c % 16
    IN  (IF sp.v1_1_0_add_escape_sequence_x THEN <<92, 120>>
                                            ELSE <<92, 117, 48, 48>>)
        \o <<48 + c1>>
        \o (IF c2 < 10 THEN <<48 + c2>> ELSE <<65 + (c2 - 10)>>)

EscapeOther(sp, c) ==
    IF c = 27 /\ sp.v1_1_0_add_escape_sequence_e THEN <<92, 101>>
    ELSE IF IsControl(c) THEN EscapeControl(sp, c)
    ELSE <<c>>

\* escape_basic_char with the case of '\n' left out: the newline falls to the
\* default branch, whose control range starts at 0x0A.
escape_basic_char_without_newline_case(sp, c) ==
    CASE c = 92 -> <<92, 92>>
      [] c = 34 -> <<92, 34>>
      [] c = 8  -> <<92, 98>>
      [] c = 9  -> <<92, 116>>
      [] c = 12 -> <<92, 102>>
      [] c = 13 -> <<92, 114>>
      [] OTHER  -> <<c>>

escape_basic_char(sp, c) ==
    CASE c = 92 -> <<92, 92>>
      [] c = 34 -> <<92, 34>>
      [] c = 8  -> <<92, 98>>
      [] c = 9  -> <<92, 116>>
      [] c = 12 -> <<92, 102>>
      [] c = 10 -> <<92, 110>>
      [] c = 13 -> <<92, 114>>
      [] OTHER  -> EscapeOther(sp, c)

RECURSIVE escape_basic_string(_, _)
escape_basic_string(sp, s) ==
    IF s = <<>> THEN <<>>
    ELSE escape_basic_char(sp, Head(s)) \o escape_basic_string(sp, Tail(s))

escape_ml_basic_char(sp, c) ==
    CASE c = 92 -> <<92, 92>>
      [] c = 8  -> <<92, 98>>
      [] c = 9  -> <<92, 116>>
      [] c = 12 -> <<92, 102>>
      [] c = 10 -> <<10>>
      [] c = 13 -> <<92, 114>>
      [] OTHER  -> EscapeOther(sp, c)

\* The first loop of escape_ml_basic_string.
RECURSIVE EscapeMlChars(_, _)
EscapeMlChars(sp, s) ==
    IF s = <<>> THEN <<>>
    ELSE escape_ml_basic_char(sp, Head(s)) \o EscapeMlChars(sp, Tail(s))

\* Find3Quotes with the scan stopping one position early: three quotes at the
\* very end of the buffer are not found.
Find3QuotesStoppingEarly(buf) ==
    LET hits == {i \in 1..(Len(buf) - 3) :
                    buf[i] = 34 /\ buf[i + 1] = 34 /\ buf[i + 2] = 34}
    IN  IF hits = {} THEN 0
        ELSE CHOOSE i \in hits : \A j \in hits : i <= j

\* retval.find("\"\"\""): the first position of three consecutive '"',
\* 0 for npos.
Find3Quotes(buf) ==
    LET hits == {i \in 1..(Len(buf) - 2) :
                    buf[i] = 34 /\ buf[i + 1] = 34 /\ buf[i + 2] = 34}
    IN  IF hits = {} THEN 0
        ELSE CHOOSE i \in hits : \A j \in hits : i <= j

\* Replace3Quotes that writes the three quotes back as they were.
Replace3QuotesUnescaped(buf, at) ==
    SubSeq(buf, 1, at - 1) \o <<34, 34, 34>> \o SubSeq(buf, at + 3, Len(buf))

\* retval.replace(found_3_quotes, 3, "\"\"\\\"")
Replace3Quotes(buf, at) ==
    SubSeq(buf, 1, at - 1) \o <<34, 34, 92, 34>> \o SubSeq(buf, at + 3, Len(buf))

\* The second loop of escape_ml_basic_string, run to its end.
RECURSIVE ReplaceLoop(_)
ReplaceLoop(buf) ==
    IF Find3Quotes(buf) = 0 THEN buf
    ELSE ReplaceLoop(Replace3Quotes(buf, Find3Quotes(buf)))

escape_ml_basic_string(sp, s) == ReplaceLoop(EscapeMlChars(sp, s))

StringFormats == {"basic", "literal", "multiline_basic", "multiline_literal"}

\* What operator()(string) puts in front of the body.
StringOpening(fmt) ==
    CASE fmt.fmt = "basic"   -> <<34>>
      [] fmt.fmt = "literal" -> <<39>>
      [] fmt.fmt = "multiline_basic" ->
            <<34, 34, 34>> \o (IF fmt.start_with_newline THEN <<10>> ELSE <<>>)
      [] fmt.fmt = "multiline_literal" ->
            <<39, 39, 39>> \o (IF fmt.start_with_newline THEN <<10>> ELSE <<>>)

StringClosing(fmt) ==
    CASE fmt.fmt = "basic"   -> <<34>>
      [] fmt.fmt = "literal" -> <<39>>
      [] fmt.fmt = "multiline_basic"   -> <<34, 34, 34>>
      [] fmt.fmt = "multiline_literal" -> <<39, 39, 39>>

HasNewline(s) == \E i \in 1..Len(s) : s[i] = 10

\* operator()(string_type, string_format_info, source_location)
FormatString(sp, s, fmt) ==
    CASE fmt.fmt = "basic" ->
            Returned(StringOpening(fmt) \o escape_basic_string(sp, s)
                     \o StringClosing(fmt))
      [] fmt.fmt = "literal" ->
            IF HasNewline(s) THEN Thrown("InvalidLiteralString")
            ELSE Returned(StringOpening(fmt) \o s \o StringClosing(fmt))
      [] fmt.fmt = "multiline_basic" ->
            Returned(StringOpening(fmt) \o escape_ml_basic_string(sp, s)
                     \o StringClosing(fmt))
      [] fmt.fmt = "multiline_literal" ->
            Returned(StringOpening(fmt) \o s \o StringClosing(fmt))
      [] OTHER -> Thrown("InvalidStringForm")

(***************************************************************************)
(* The string encoder as a state machine.  The single-line and literal     *)
(* forms are one step; the multi-line basic form steps through the         *)
(* triple-quote loop of escape_ml_basic_string.                            *)
(***************************************************************************)
StrSpecLevels ==
    {SpecLevel(e, x, FALSE, FALSE) : e \in BOOLEAN, x \in BOOLEAN}

StringFormatInfo(f, nl) == [fmt |-> f, start_with_newline |-> nl]

InitStr ==
    /\ spec_ \in StrSpecLevels
    /\ force_inline_ = FALSE
    /\ current_indent_ = 0
    /\ keys_ = <<>>
    /\ pc = "idle"
    /\ arg = [s |-> <<>>, fmt |-> StringFormatInfo("basic", FALSE)]
    /\ retval = <<>>
    /\ replaced = 0
    /\ result = NoResult

\* A call of the string encoder in a form other than multiline_basic.
CallString ==
    /\ pc = "idle"
    /\ \E s \in Strings, f \in StringFormats \ {"multiline_basic"},
          nl \in BOOLEAN :
          /\ arg' = [s |-> s, fmt |-> StringFormatInfo(f, nl)]
          /\ result' = FormatString(spec_, s, StringFormatInfo(f, nl))
    /\ pc' = "done"
    /\ UNCHANGED <<spec_, force_inline_, current_indent_, keys_, retval, replaced>>

\* multiline_basic: up to the end of the first loop of escape_ml_basic_string.
CallMlBasic ==
    /\ pc = "idle"
    /\ \E s \in Strings, nl \in BOOLEAN :
          /\ arg' = [s |-> s, fmt |-> StringFormatInfo("multiline_basic", nl)]
          /\ retval' = EscapeMlChars(spec_, s)
    /\ pc' = "scan"
    /\ UNCHANGED <<spec_, force_inline_, current_indent_, keys_, replaced, result>>

\* One iteration of `while(found_3_quotes != npos)`.
ReplaceStep ==
    /\ pc = "scan"
    /\ Find3Quotes(retval) # 0
    /\ retval' = Replace3Quotes(retval, Find3Quotes(retval))
    /\ replaced' = replaced + 1
    /\ UNCHANGED <<spec_, force_inline_, current_indent_, keys_, pc, arg, result>>

\* The loop is left; the delimiters are put around the body.
ReturnMlBasic ==
    /\ pc = "scan"
    /\ Find3Quotes(retval) = 0
    /\ result' = Returned(StringOpening(arg.fmt) \o retval \o StringClosing(arg.fmt))
    /\ pc' = "done"
    /\ UNCHANGED <<spec_, force_inline_, current_indent_, keys_, arg, retval, replaced>>

NextStr == CallString \/ CallMlBasic \/ ReplaceStep \/ ReturnMlBasic

SpecStr == InitStr /\ [][NextStr]_vars

(***************************************************************************)
(* Claims about the string encoder.                                        *)
(***************************************************************************)
StringDone(f) == pc = "done" /\ arg.fmt.fmt = f

HexValue(c) ==
    IF 48 <= c /\ c <= 57 THEN c - 48
    ELSE IF 65 <= c /\ c <= 70 THEN c - 55
    ELSE IF 97 <= c /\ c <= 102 THEN c - 87
    ELSE -1

AllHex(t, from, n) ==
    /\ from + n - 1 <= Len(t)
    /\ \A k \in from..(from + n - 1) : HexValue(t[k]) >= 0

\* TOML's escape sequences in a basic string body, decoded from position i;
\* a sequence the grammar does not know decodes to <<-1>>.
RECURSIVE DecodeEscapes(_, _, _)
DecodeEscapes(sp, t, i) ==
    IF i > Len(t) THEN <<>>
    ELSE IF t[i] # 92 THEN <<t[i]>> \o DecodeEscapes(sp, t, i + 1)
    ELSE IF i = Len(t) THEN <<-1>>
    ELSE LET e == t[i + 1] IN
         CASE e = 92  -> <<92>> \o DecodeEscapes(sp, t, i + 2)
           [] e = 34  -> <<34>> \o DecodeEscapes(sp, t, i + 2)
           [] e = 98  -> <<8>>  \o DecodeEscapes(sp, t, i + 2)
           [] e = 116 -> <<9>>  \o DecodeEscapes(sp, t, i + 2)
           [] e = 102 -> <<12>> \o DecodeEscapes(sp, t, i + 2)
           [] e = 110 -> <<10>> \o DecodeEscapes(sp, t, i + 2)
           [] e = 114 -> <<13>> \o DecodeEscapes(sp, t, i + 2)
           [] e = 101 /\ sp.v1_1_0_add_escape_sequence_e ->
                 <<27>> \o DecodeEscapes(sp, t, i + 2)
           [] e = 120 /\ sp.v1_1_0_add_escape_sequence_x /\ AllHex(t, i + 2, 2) ->
                 <<16 * HexValue(t[i + 2]) + HexValue(t[i + 3])>>
                 \o DecodeEscapes(sp, t, i + 4)
           [] e = 117 /\ AllHex(t, i + 2, 4) ->
                 <<4096 * HexValue(t[i + 2]) + 256 * HexValue(t[i + 3])
                   + 16 * HexValue(t[i + 4]) + HexValue(t[i + 5])>>
                 \o DecodeEscapes(sp, t, i + 6)
           [] OTHER -> <<-1>>

\* The text between the delimiters of a multi-line string.
MlDelimited(t) == SubSeq(t, 4, Len(t) - 3)

\* TOML's reading of a multi-line basic string: the delimiters are stripped,
\* a newline right after the opening delimiter is trimmed, escapes are decoded.
MlBasicDecode(sp, t) ==
    LET inner == MlDelimited(t)
        body  == IF inner # <<>> /\ inner[1] = 10 THEN Tail(inner) ELSE inner
    IN  DecodeEscapes(sp, body, 1)

HasTripleQuote(t) ==
    \E i \in 1..(Len(t) - 2) : t[i] = 34 /\ t[i + 1] = 34 /\ t[i + 2] = 34

\* The body escape_ml_basic_string returned, read back from the output.
MlBodyOf(t, fmt) ==
    SubSeq(t, (IF fmt.start_with_newline THEN 5 ELSE 4), Len(t) - 3)

\* C1: decoding the multi-line basic rendering of s by the TOML multi-line
\* basic rules yields exactly s, for every s, both values of the
\* leading-newline flag and every specification level.
C1_MlBasicRoundTrip ==
    StringDone("multiline_basic") =>
        /\ result.err = "none"
        /\ MlBasicDecode(spec_, result.str) = arg.s

\* C1, where the code does round-trip: the flag is set, or s does not begin
\* with a newline.
C1_RoundTripUnlessLeadingNewline ==
    (/\ StringDone("multiline_basic")
     /\ (arg.fmt.start_with_newline \/ arg.s = <<>> \/ arg.s[1] # 10)) =>
        /\ result.err = "none"
        /\ MlBasicDecode(spec_, result.str) = arg.s

\* C2: the body escape_ml_basic_string returns contains no three consecutive
\* double-quote characters.
C2_NoTripleQuoteInBody ==
    StringDone("multiline_basic") =>
        /\ result.err = "none"
        /\ ~HasTripleQuote(MlBodyOf(result.str, arg.fmt))
        /\ MlBodyOf(result.str, arg.fmt) = escape_ml_basic_string(spec_, arg.s)

C2_Witness ==
    /\ StringDone("multiline_basic")
    /\ HasTripleQuote(arg.s)
    /\ replaced >= 2

\* C3: a basic rendering holds no newline; a literal rendering fails with
\* InvalidLiteralString exactly when the string holds a newline, and holds no
\* newline otherwise.
C3_NoNewlineInSingleLine ==
    /\ StringDone("basic") =>
          result.err = "none" /\ ~HasNewline(result.str)
    /\ StringDone("literal") =>
          /\ result.err \in {"none", "InvalidLiteralString"}
          /\ (result.err = "InvalidLiteralString") <=> HasNewline(arg.s)
          /\ result.err = "none" => ~HasNewline(result.str)

C3_Witness ==
    /\ StringDone("basic")
    /\ HasNewline(arg.s)
    /\ result.err = "none"

(***************************************************************************)
(* The integer encoder.                                                    *)
(***************************************************************************)
MaxInt == 130
MaxWidth == 5
MaxSpacer == 3

\* The digit character of d < 16, as std::ostream writes it.
DigitChar(d, uppercase) ==
    IF d < 10 THEN 48 + d
    ELSE IF uppercase THEN 65 + (d - 10) ELSE 97 + (d - 10)

\* The digits of n >= 0 in the given base, most significant first.
RECURSIVE Digits(_, _, _)
Digits(n, base, uppercase) ==
    IF n < base THEN <<DigitChar(n, uppercase)>>
    ELSE Append(Digits(n \div base, base, uppercase),
                DigitChar(n % base, uppercase))

\* What `oss << i` writes before padding: a '-' and the magnitude.
NumberText(i, base, uppercase) ==
    IF i < 0 THEN <<45>> \o Digits(-i, base, uppercase)
    ELSE Digits(i, base, uppercase)

RECURSIVE Fill(_, _)
Fill(n, c) == IF n <= 0 THEN <<>> ELSE <<c>> \o Fill(n - 1, c)

\* std::setw(width) with the stream's fill character: the stream's default
\* adjustment pads on the left.
PadLeft(text, width, fill) == Fill(width - Len(text), fill) \o text

Reverse(s) == [k \in 1..Len(s) |-> s[Len(s) + 1 - k]]

\* The loop of insert_spacer: `spaced`, built from the last character of s.
RECURSIVE SpacedFrom(_, _, _)
SpacedFrom(s, spacer, counter) ==
    IF counter >= Len(s) THEN <<>>
    ELSE (IF counter # 0 /\ counter % spacer = 0 THEN <<95>> ELSE <<>>)
         \o <<s[Len(s) - counter]>>
         \o SpacedFrom(s, spacer, counter + 1)

\* The lambda insert_spacer of the integer encoder.
insert_spacer(s0, spacer) ==
    IF spacer = 0 THEN s0
    ELSE LET signed == s0 # <<>> /\ (s0[1] = 43 \/ s0[1] = 45)
             sign   == IF signed THEN <<s0[1]>> ELSE <<>>
             s      == IF signed THEN Tail(s0) ELSE s0
             spaced == SpacedFrom(s, spacer, 0)
             popped == IF spaced # <<>> /\ spaced[Len(spaced)] = 95
                       THEN SubSeq(spaced, 1, Len(spaced) - 1) ELSE spaced
         IN  sign \o Reverse(popped)

\* The binary branch's two loops: `tmp` holds the bits, least significant
\* first, with the '_' the loops put between them.
RECURSIVE BinBits(_, _, _)
BinBits(x, spacer, bits) ==
    IF x = 0 THEN <<>>
    ELSE (IF spacer # 0 /\ bits # 0 /\ bits % spacer = 0 THEN <<95>> ELSE <<>>)
         \o (IF x % 2 = 1 THEN <<49>> ELSE <<48>>)
         \o BinBits(x \div 2, spacer, bits + 1)

RECURSIVE BinPadding(_, _, _)
BinPadding(bits, width, spacer) ==
    IF bits >= width THEN <<>>
    ELSE (IF spacer # 0 /\ bits # 0 /\ bits % spacer = 0 THEN <<95>> ELSE <<>>)
         \o <<48>>
         \o BinPadding(bits + 1, width, spacer)

RECURSIVE BitCount(_)
BitCount(x) == IF x = 0 THEN 0 ELSE 1 + BitCount(x \div 2)

IntegerFormats == {"dec", "hex", "oct", "bin"}

\* The '_' and suffix the decimal branch appends.
DecSuffix(sp, fmt) ==
    IF sp.ext_num_suffix /\ fmt.suffix # <<>> THEN <<95>> \o fmt.suffix ELSE <<>>

\* The decimal branch writes with the stream's default fill, a space.
FormatDec(sp, i, fmt) ==
    insert_spacer(PadLeft(NumberText(i, 10, FALSE), fmt.width, 32), fmt.spacer)
    \o DecSuffix(sp, fmt)

FormatHex(i, fmt) ==
    <<48, 120>>
    \o insert_spacer(PadLeft(NumberText(i, 16, fmt.uppercase), fmt.width, 48),
                     fmt.spacer)

FormatOct(i, fmt) ==
    <<48, 111>>
    \o insert_spacer(PadLeft(NumberText(i, 8, FALSE), fmt.width, 48), fmt.spacer)

FormatBin(i, fmt) ==
    <<48, 98>>
    \o Reverse(BinBits(i, fmt.spacer, 0)
               \o BinPadding(BitCount(i), fmt.width, fmt.spacer))

\* The integer encoder without its check of the sign.
FormatIntegerOfAnySign(sp, i, fmt) ==
    CASE fmt.fmt = "dec" -> Returned(FormatDec(sp, i, fmt))
      [] fmt.fmt = "hex" -> Returned(FormatHex(i, fmt))
      [] fmt.fmt = "oct" -> Returned(FormatOct(i, fmt))
      [] fmt.fmt = "bin" -> Returned(FormatBin(i, fmt))
      [] OTHER -> Thrown("BadIntegerRadix")

\* operator()(integer_type, integer_format_info, source_location)
FormatInteger(sp, i, fmt) ==
    IF fmt.fmt = "dec" THEN Returned(FormatDec(sp, i, fmt))
    ELSE IF i < 0 THEN Thrown("NegativeNonDecimal")
    ELSE CASE fmt.fmt = "hex" -> Returned(FormatHex(i, fmt))
           [] fmt.fmt = "oct" -> Returned(FormatOct(i, fmt))
           [] fmt.fmt = "bin" -> Returned(FormatBin(i, fmt))
           [] OTHER -> Thrown("BadIntegerRadix")

IntegerFormatInfo(f, width, spacer, uppercase, suffix) ==
    [fmt |-> f, width |-> width, spacer |-> spacer, uppercase |-> uppercase,
     suffix |-> suffix]

\* The suffixes a decimal integer is given: none, or "m".
Suffixes == {<<>>, <<109>>}

IntegerFormatInfos ==
    {IntegerFormatInfo(f, w, sp, up, sf) :
        f \in IntegerFormats, w \in 0..MaxWidth, sp \in 0..MaxSpacer,
        up \in BOOLEAN, sf \in Suffixes}

IntSpecLevels == {SpecLevel(FALSE, FALSE, sf, FALSE) : sf \in BOOLEAN}

InitInt ==
    /\ spec_ \in IntSpecLevels
    /\ force_inline_ = FALSE
    /\ current_indent_ = 0
    /\ keys_ = <<>>
    /\ pc = "idle"
    /\ arg = [i |-> 0, fmt |-> IntegerFormatInfo("dec", 0, 0, FALSE, <<>>)]
    /\ retval = <<>>
    /\ replaced = 0
    /\ result = NoResult

\* A call of the integer encoder.
CallInteger ==
    /\ pc = "idle"
    /\ \E i \in (-MaxInt)..MaxInt, fmt \in IntegerFormatInfos :
          /\ arg' = [i |-> i, fmt |-> fmt]
          /\ result' = FormatInteger(spec_, i, fmt)
    /\ pc' = "done"
    /\ UNCHANGED <<spec_, force_inline_, current_indent_, keys_, retval, replaced>>

NextInt == CallInteger

SpecInt == InitInt /\ [][NextInt]_vars

(***************************************************************************)
(* Claims about the integer encoder.                                       *)
(***************************************************************************)
IntegerDone == pc = "done" /\ result.err = "none"

\* The rendering without the radix prefix and without the decimal suffix.
IntegerBody ==
    IF arg.fmt.fmt = "dec"
    THEN SubSeq(result.str, 1, Len(result.str) - Len(DecSuffix(spec_, arg.fmt)))
    ELSE SubSeq(result.str, 3, Len(result.str))

IsDigitOf(c, radix) ==
    CASE radix = "dec" -> 48 <= c /\ c <= 57
      [] radix = "hex" -> (48 <= c /\ c <= 57) \/ (65 <= c /\ c <= 70)
                          \/ (97 <= c /\ c <= 102)
      [] radix = "oct" -> 48 <= c /\ c <= 55
      [] radix = "bin" -> c = 48 \/ c = 49

\* The number of digits of t to the right of position p.
DigitsRightOf(t, p, radix) ==
    Cardinality({q \in (p + 1)..Len(t) : IsDigitOf(t[q], radix)})

\* Every '_' of t stands between two digits, with a multiple of `spacer`
\* digits to its right, and every such boundary between two digits has one.
GroupedExactly(t, spacer, radix) ==
    /\ \A p \in 1..Len(t) :
          t[p] = 95 =>
             /\ 1 < p /\ p < Len(t)
             /\ IsDigitOf(t[p - 1], radix) /\ IsDigitOf(t[p + 1], radix)
             /\ DigitsRightOf(t, p, radix) % spacer = 0
    /\ \A p \in 1..(Len(t) - 1) :
          (IsDigitOf(t[p], radix) /\ IsDigitOf(t[p + 1], radix)) =>
             DigitsRightOf(t, p, radix) % spacer # 0

\* C4: with spacer > 0, the `_` separators of a rendering stand exactly at the
\* spacer-digit boundaries counted from the right of the magnitude digits, and
\* nowhere else; none stands next to or before the sign of a decimal.
C4_SeparatorsAtGroupBoundaries ==
    (IntegerDone /\ arg.fmt.spacer > 0) =>
        GroupedExactly(IntegerBody, arg.fmt.spacer, arg.fmt.fmt)

\* C4 for the renderings that are not padded with spaces.
C4_SeparatorsUnlessSpacePadded ==
    (/\ IntegerDone /\ arg.fmt.spacer > 0
     /\ (arg.fmt.fmt = "dec" =>
            arg.fmt.width <= Len(NumberText(arg.i, 10, FALSE)))) =>
        GroupedExactly(IntegerBody, arg.fmt.spacer, arg.fmt.fmt)

\* C6: a hex, oct or bin rendering of a non-negative integer is the prefix
\* followed by at least one digit of the radix, with `_` only between digits,
\* and holds no sign; also for the value 0 with width 0.
C6_NonDecimalPrefixAndDigits ==
    (pc = "done" /\ arg.fmt.fmt # "dec" /\ arg.i >= 0) =>
        /\ result.err = "none"
        /\ SubSeq(result.str, 1, 2) =
              (CASE arg.fmt.fmt = "hex" -> <<48, 120>>
                 [] arg.fmt.fmt = "oct" -> <<48, 111>>
                 [] arg.fmt.fmt = "bin" -> <<48, 98>>)
        /\ IntegerBody # <<>>
        /\ \A p \in 1..Len(IntegerBody) :
              \/ IsDigitOf(IntegerBody[p], arg.fmt.fmt)
              \/ /\ IntegerBody[p] = 95
                 /\ 1 < p /\ p < Len(IntegerBody)
                 /\ IsDigitOf(IntegerBody[p - 1], arg.fmt.fmt)
                 /\ IsDigitOf(IntegerBody[p + 1], arg.fmt.fmt)

\* C6 for every case but the binary rendering of 0 with width 0.
C6_UnlessBinaryZeroWidthZero ==
    (arg.fmt.fmt = "bin" /\ arg.i = 0 /\ arg.fmt.width = 0)
    \/ C6_NonDecimalPrefixAndDigits

(***************************************************************************)
(* Values.  A value is a record: its kind, its payload, its format hint    *)
(* and its comments.  A table holds its keys and its values in the order   *)
(* the container iterates them.                                            *)
(***************************************************************************)
Integer(i, fmt) == [kind |-> "integer", i |-> i, fmt |-> fmt, com |-> <<>>]
String(s, fmt)  == [kind |-> "string", s |-> s, fmt |-> fmt, com |-> <<>>]
Boolean(b)      == [kind |-> "boolean", b |-> b, com |-> <<>>]
Empty           == [kind |-> "empty", com |-> <<>>]
\* A floating, date or time value: the text its encoder writes.
Scalar(kind, text) == [kind |-> kind, text |-> text, com |-> <<>>]
Array(elems, fmt, com) ==
    [kind |-> "array", elems |-> elems, fmt |-> fmt, com |-> com]
Table(keys, elems, fmt, com) ==
    [kind |-> "table", keys |-> keys, elems |-> elems, fmt |-> fmt, com |-> com]

ArrayFormatInfo(f, body, closing, ichar) ==
    [fmt |-> f, body_indent |-> body, closing_indent |-> closing,
     indent_type |-> ichar]
TableFormatInfo(f, name, body, closing, ichar) ==
    [fmt |-> f, name_indent |-> name, body_indent |-> body,
     closing_indent |-> closing, indent_type |-> ichar]

ArrayFormats == {"default_format", "oneline", "multiline", "array_of_tables"}
TableFormats == {"multiline", "oneline", "multiline_oneline", "dotted", "implicit"}

is_table(v) == v.kind = "table"
is_array(v) == v.kind = "array"

\* basic_value::is_array_of_tables: a non-empty array of tables only.
is_array_of_tables(v) ==
    /\ is_array(v)
    /\ v.elems # <<>>
    /\ \A k \in 1..Len(v.elems) : is_table(v.elems[k])

(***************************************************************************)
(* The state a call threads through the renderers: the serializer's fields *)
(* keys_, force_inline_ and current_indent_, the text written so far (a     *)
(* sequence of pieces, each with the position in the value tree of the      *)
(* value it belongs to), the error thrown, and the history of dispatches.   *)
(***************************************************************************)
Piece(t, s, at) == [t |-> t, s |-> s, at |-> at]

StartOfCall(keys) ==
    [err |-> "none", out |-> <<>>, keys |-> keys, force_inline |-> FALSE,
     indent |-> 0, log |-> <<>>, misread |-> FALSE]

Ok(acc) == acc.err = "none"

\* retval += s
Emit(acc, t, s, at) ==
    IF ~Ok(acc) \/ s = <<>> THEN acc
    ELSE [acc EXCEPT !.out = Append(@, Piece(t, s, at))]

\* throw serialization_error(...)
Throw(acc, kind) == IF Ok(acc) THEN [acc EXCEPT !.err = kind] ELSE acc

\* SetForceInline that never clears the flag.
SetForceInlineNeverCleared(acc, b) ==
    IF Ok(acc) /\ b THEN [acc EXCEPT !.force_inline = TRUE] ELSE acc

SetForceInline(acc, b) ==
    IF Ok(acc) THEN [acc EXCEPT !.force_inline = b] ELSE acc

\* AddIndent that takes nothing back: decrements are left out.
AddIndentNeverTakenBack(acc, n) ==
    IF Ok(acc) /\ n > 0 THEN [acc EXCEPT !.indent = @ + n] ELSE acc

AddIndent(acc, n) ==
    IF Ok(acc) THEN [acc EXCEPT !.indent = @ + n] ELSE acc

PushKey(acc, k) == IF Ok(acc) THEN [acc EXCEPT !.keys = Append(@, k)] ELSE acc

\* keys_ with the pop_back() left out.
PopKeyForgotten(acc) == acc

PopKey(acc) ==
    IF Ok(acc) THEN [acc EXCEPT !.keys = SubSeq(@, 1, Len(@) - 1)] ELSE acc

\* retval.pop_back(): the last character written is taken back.
PopBack(acc) ==
    IF ~Ok(acc) \/ acc.out = <<>> THEN acc
    ELSE LET n    == Len(acc.out)
             last == acc.out[n]
         IN  IF Len(last.s) = 1
             THEN [acc EXCEPT !.out = SubSeq(@, 1, n - 1)]
             ELSE [acc EXCEPT !.out[n].s = SubSeq(@, 1, Len(@) - 1)]

Logged(acc, ev, at) ==
    IF Ok(acc)
    THEN [acc EXCEPT !.log = Append(@, [ev |-> ev, at |-> at, keys |-> acc.keys,
                                       force_inline |-> acc.force_inline,
                                       indent |-> acc.indent])]
    ELSE acc

\* The text of a sequence of pieces.
RECURSIVE Flatten(_)
Flatten(out) ==
    IF out = <<>> THEN <<>> ELSE Head(out).s \o Flatten(Tail(out))

(***************************************************************************)
(* Keys, comments and indentation.                                         *)
(***************************************************************************)
\* The characters of an unquoted key: A-Z a-z 0-9 - _
IsBareKeyChar(c) ==
    \/ (65 <= c /\ c <= 90) \/ (97 <= c /\ c <= 122) \/ (48 <= c /\ c <= 57)
    \/ c = 45 \/ c = 95

\* syntax::unquoted_key(spec_).scan(loc) succeeds and reaches the end of the key.
IsBareKey(key) == key # <<>> /\ \A k \in 1..Len(key) : IsBareKeyChar(key[k])

escape_key_char(sp, c) ==
    CASE c = 92 -> <<92, 92>>
      [] c = 34 -> <<92, 34>>
      [] c = 8  -> <<92, 98>>
      [] c = 9  -> <<92, 116>>
      [] c = 12 -> <<92, 102>>
      [] c = 10 -> <<92, 110>>
      [] c = 13 -> <<92, 114>>
      [] OTHER  -> IF IsControl(c) THEN EscapeControl(sp, c) ELSE <<c>>

RECURSIVE EscapeKeyChars(_, _)
EscapeKeyChars(sp, key) ==
    IF key = <<>> THEN <<>>
    ELSE escape_key_char(sp, Head(key)) \o EscapeKeyChars(sp, Tail(key))

format_key(sp, key) ==
    IF key = <<>> THEN <<34, 34>>
    ELSE IF IsBareKey(key) THEN key
    ELSE <<34>> \o EscapeKeyChars(sp, key) \o <<34>>

\* format_keys of a non-empty sequence of keys (an empty one gives nullopt).
RECURSIVE format_keys(_, _)
format_keys(sp, keys) ==
    IF Len(keys) = 1 THEN format_key(sp, keys[1])
    ELSE format_key(sp, Head(keys)) \o <<46>> \o format_keys(sp, Tail(keys))

IndentChars == {"space", "tab", "none"}

format_indent(indent, indent_type) ==
    CASE indent_type = "space" -> Fill(indent, 32)
      [] indent_type = "tab"   -> Fill(indent, 9)
      [] OTHER                 -> <<>>

\* format_comments(preserve_comments, indent_char): a discard_comments
\* container is the empty sequence.
RECURSIVE format_comments(_, _, _)
format_comments(comments, indent, indent_type) ==
    IF comments = <<>> THEN <<>>
    ELSE LET c == Head(comments)
             rest == format_comments(Tail(comments), indent, indent_type)
         IN  IF c = <<>> THEN rest
             ELSE format_indent(indent, indent_type)
                  \o (IF c[1] # 35 THEN <<35>> ELSE <<>>)
                  \o c
                  \o (IF c[Len(c)] # 10 THEN <<10>> ELSE <<>>)
                  \o rest

\* retval += format_comments(com, indent_type)
EmitComments(acc, com, indent_type, at) ==
    Emit(acc, "comment", format_comments(com, acc.indent, indent_type), at)

\* retval += format_indent(indent_type)
EmitIndent(acc, indent_type, at) ==
    Emit(acc, "indent", format_indent(acc.indent, indent_type), at)

(***************************************************************************)
(* The renderers.  cx holds what does not change during a call: sp, the    *)
(* specification level, and misread, what as_table_fmt() yields when it is *)
(* applied to a value that is not a table ("throw", or a table format).    *)
(***************************************************************************)

\* What the encoder of the element e returns, for the elements whose length
\* the loop below takes from their encoding.
EncodedElement(sp, e) ==
    CASE e.kind = "integer" -> FormatInteger(sp, e.i, e.fmt)
      [] e.kind = "string"  -> FormatString(sp, e.s, e.fmt)
      [] OTHER -> Returned(<<>>)

\* ApproxLen without the 2 a string is given for its quotes.
ApproxLenWithoutQuotes(e, enc) ==
    CASE e.kind = "boolean" -> IF e.b THEN 4 ELSE 5
      [] e.kind = "integer" -> Len(enc.str)
      [] e.kind = "floating" -> Len(e.text)
      [] e.kind = "string" -> Len(enc.str)
      [] e.kind = "local_date" -> 10
      [] e.kind = "local_time" -> 15
      [] OTHER -> 0

\* What the element e, encoded as enc, adds to approx_len.
ApproxLen(e, enc) ==
    CASE e.kind = "boolean" -> IF e.b THEN 4 ELSE 5
      [] e.kind = "integer" -> Len(enc.str)
      [] e.kind = "floating" -> Len(e.text)
      [] e.kind = "string" -> 2 + Len(enc.str)
      [] e.kind = "local_date" -> 10
      [] e.kind = "local_time" -> 15
      [] OTHER -> 0

\* The loop `for(const auto& e : a)` that looks for a reason to break the
\* array over several lines: the form it ends with, or the error an encoder
\* throws while the lengths are added up.
RECURSIVE ApproxLenLoop(_, _, _, _)
ApproxLenStep(sp, a, k, approx_len, e, enc) ==
    IF e.com # <<>> THEN [err |-> "none", f |-> "multiline"]
    ELSE IF e.kind \in {"array", "table", "offset_datetime", "local_datetime"}
         THEN [err |-> "none", f |-> "multiline"]
    ELSE IF e.kind = "string"
            /\ e.fmt.fmt \in {"multiline_basic", "multiline_literal"}
         THEN [err |-> "none", f |-> "multiline"]
    ELSE IF enc.err # "none" THEN [err |-> enc.err, f |-> "oneline"]
    ELSE IF approx_len + ApproxLen(e, enc) > 60
         THEN [err |-> "none", f |-> "multiline"]
    ELSE ApproxLenLoop(sp, a, k + 1, approx_len + ApproxLen(e, enc) + 2)

ApproxLenLoop(sp, a, k, approx_len) ==
    IF k > Len(a) THEN [err |-> "none", f |-> "oneline"]
    ELSE ApproxLenStep(sp, a, k, approx_len, a[k], EncodedElement(sp, a[k]))

AllTables(a) == \A k \in 1..Len(a) : is_table(a[k])

\* `if(this->force_inline_ && fmt.fmt == array_format::array_of_tables)`
ForceInlineDowngrade(force_inline, resolved) ==
    IF resolved.err = "none" /\ force_inline /\ resolved.f = "array_of_tables"
    THEN [err |-> "none", f |-> "multiline"]
    ELSE resolved

\* ResolveArrayFormat without the test `com.empty()`.
ResolveArrayFormatIgnoringComments(sp, keys, force_inline, a, fmt, com) ==
    ForceInlineDowngrade(force_inline,
        IF fmt.fmt = "default_format"
        THEN IF keys # <<>> /\ a # <<>> /\ AllTables(a)
             THEN [err |-> "none", f |-> "array_of_tables"]
             ELSE ApproxLenLoop(sp, a, 1, 0)
        ELSE [err |-> "none", f |-> fmt.fmt])

\* The form the array renderer settles on before it writes anything.
ResolveArrayFormat(sp, keys, force_inline, a, fmt, com) ==
    ForceInlineDowngrade(force_inline,
        IF fmt.fmt = "default_format"
        THEN IF keys # <<>> /\ a # <<>> /\ com = <<>> /\ AllTables(a)
             THEN [err |-> "none", f |-> "array_of_tables"]
             ELSE ApproxLenLoop(sp, a, 1, 0)
        ELSE [err |-> "none", f |-> fmt.fmt])

\* `if(!a.empty()) {retval.pop_back(); retval.pop_back();}`: the separator
\* after the last entry is taken back.
PopSeparator(acc, present) == IF present THEN PopBack(PopBack(acc)) ELSE acc

\* `if(!retval.empty()) {retval += char_type('\n');}`, where the text written
\* before was `base` pieces long.
EmitIfWritten(acc, base, s, at) ==
    IF Len(acc.out) > base THEN Emit(acc, "lit", s, at) ELSE acc

\* The renderers call one another through Render, defined below.
RECURSIVE Render(_, _, _, _, _, _, _)

\* The loop of the array_of_tables branch, from element i on.
AotLoop(cx, acc, v, i, at) ==
    IF i > Len(v.elems) \/ ~Ok(acc) THEN acc
    ELSE LET e  == v.elems[i]
             a1 == AddIndent(acc, e.fmt.name_indent)
             a2 == EmitComments(a1, e.com, e.fmt.indent_type, at \o <<i>>)
             a3 == EmitIndent(a2, e.fmt.indent_type, at \o <<i>>)
             a4 == AddIndent(a3, -e.fmt.name_indent)
             a5 == Emit(a4, "aot_header",
                        <<91, 91>> \o format_keys(cx.sp, acc.keys) \o <<93, 93, 10>>,
                        at \o <<i>>)
             a6 == Render("format_ml_table", cx, a5, e, 0, at \o <<i>>, <<>>)
         IN  IF ~is_table(e) THEN Throw(acc, "AssertIsTable")
             ELSE Render("AotLoop", cx, a6, v, i + 1, at, <<>>)

OnelineArrayLoop(cx, acc, v, i, at) ==
    IF i > Len(v.elems) \/ ~Ok(acc) THEN acc
    ELSE LET a1 == SetForceInline(acc, TRUE)
             a2 == Render("Dispatch", cx, a1, v.elems[i], 0, at \o <<i>>, <<>>)
             a3 == Emit(a2, "lit", <<44, 32>>, at)
         IN  Render("OnelineArrayLoop", cx, a3, v, i + 1, at, <<>>)

MultilineArrayLoop(cx, acc, v, i, at) ==
    IF i > Len(v.elems) \/ ~Ok(acc) THEN acc
    ELSE LET e  == v.elems[i]
             a1 == AddIndent(acc, v.fmt.body_indent)
             a2 == EmitComments(a1, e.com, v.fmt.indent_type, at \o <<i>>)
             a3 == EmitIndent(a2, v.fmt.indent_type, at \o <<i>>)
             a4 == AddIndent(a3, -v.fmt.body_indent)
             a5 == SetForceInline(a4, TRUE)
             a6 == Render("Dispatch", cx, a5, e, 0, at \o <<i>>, <<>>)
             a7 == Emit(a6, "lit", <<44, 10>>, at)
         IN  Render("MultilineArrayLoop", cx, a7, v, i + 1, at, <<>>)

\* The branch of the array renderer for the form res it settled on.
RenderArrayAs(cx, acc, v, at, res) ==
        IF res.err # "none" THEN Throw(acc, res.err)
        ELSE IF res.f = "array_of_tables" THEN
            IF acc.keys = <<>> THEN Throw(acc, "MissingKey")
            ELSE Render("AotLoop", cx, acc, v, 1, at, <<>>)
        ELSE IF res.f = "oneline" THEN
            LET a1 == Emit(acc, "lit", <<91>>, at)
                a2 == Render("OnelineArrayLoop", cx, a1, v, 1, at, <<>>)
                a3 == PopSeparator(a2, v.elems # <<>>)
                a4 == Emit(a3, "lit", <<93>>, at)
            IN  SetForceInline(a4, FALSE)
        ELSE
            LET a1 == Emit(acc, "lit", <<91, 10>>, at)
                a2 == Render("MultilineArrayLoop", cx, a1, v, 1, at, <<>>)
                a3 == SetForceInline(a2, FALSE)
                a4 == AddIndent(a3, v.fmt.closing_indent)
                a5 == EmitIndent(a4, v.fmt.indent_type, at)
                a6 == AddIndent(a5, -v.fmt.closing_indent)
            IN  Emit(a6, "lit", <<93>>, at)

\* operator()(array_type, array_format_info, comment_type, source_location)
RenderArray(cx, acc, v, at) ==
    RenderArrayAs(cx, acc, v, at,
                  ResolveArrayFormat(cx.sp, acc.keys, acc.force_inline,
                                     v.elems, v.fmt, v.com))

\* format_later without its second disjunct: arrays of tables are not put off.
format_later_without_arrays(v) ==
    /\ is_table(v)
    /\ v.fmt.fmt # "oneline"
    /\ v.fmt.fmt # "multiline_oneline"
    /\ v.fmt.fmt # "dotted"

\* The lambda format_later of format_ml_table.
format_later(v) ==
    LET is_ml_table ==
            /\ is_table(v)
            /\ v.fmt.fmt # "oneline"
            /\ v.fmt.fmt # "multiline_oneline"
            /\ v.fmt.fmt # "dotted"
        is_ml_array_table ==
            /\ is_array_of_tables(v)
            /\ v.fmt.fmt # "oneline"
            /\ v.fmt.fmt # "multiline"
    IN  is_ml_table \/ is_ml_array_table

\* The first loop of format_ml_table, from entry i on.
MlFirstPass(cx, acc, t, i, at) ==
    IF i > Len(t.elems) \/ ~Ok(acc) THEN acc
    ELSE LET key == t.keys[i]
             val == t.elems[i]
             a1  == PushKey(acc, key)
             a2  == EmitComments(a1, val.com, t.fmt.indent_type, at \o <<i>>)
             a3  == EmitIndent(a2, t.fmt.indent_type, at \o <<i>>)
             dotted == is_table(val) /\ val.fmt.fmt = "dotted"
             a4  == Emit(a3, "key", IF dotted THEN <<>> ELSE format_key(cx.sp, key),
                         at \o <<i>>)
             a5  == Emit(a4, "lit", IF dotted THEN <<>> ELSE <<32, 61, 32>>,
                         at \o <<i>>)
             a6  == Render("Dispatch", cx, a5, val, 0, at \o <<i>>, <<>>)
             a7  == Emit(a6, "lit", IF dotted THEN <<>> ELSE <<10>>, at \o <<i>>)
             a8  == PopKey(a7)
         IN  Render("MlFirstPass", cx, IF format_later(val) THEN acc ELSE a8,
               t, i + 1, at, <<>>)

\* The second loop of format_ml_table, from entry i on.
MlSecondPass(cx, acc, t, i, at) ==
    IF i > Len(t.elems) \/ ~Ok(acc) THEN acc
    ELSE LET a1 == PushKey(acc, t.keys[i])
             a2 == Render("Dispatch", cx, a1, t.elems[i], 0, at \o <<i>>, <<>>)
             a3 == PopKey(a2)
         IN  Render("MlSecondPass", cx, IF format_later(t.elems[i]) THEN a3 ELSE acc,
               t, i + 1, at, <<>>)

format_ml_table(cx, acc, t, at) ==
    LET a0 == Logged(acc, "format_ml_table", at)
        a1 == AddIndent(a0, t.fmt.body_indent)
        a2 == Render("MlFirstPass", cx, a1, t, 1, at, <<>>)
        a3 == AddIndent(a2, -t.fmt.body_indent)
        a4 == EmitIfWritten(a3, Len(acc.out), <<10>>, at)
    IN  Render("MlSecondPass", cx, a4, t, 1, at, <<>>)

InlineLoop(cx, acc, t, i, at) ==
    IF i > Len(t.elems) \/ ~Ok(acc) THEN acc
    ELSE LET a1 == SetForceInline(acc, TRUE)
             a2 == Emit(a1, "inline_key", format_key(cx.sp, t.keys[i]), at \o <<i>>)
             a3 == Emit(a2, "lit", <<32, 61, 32>>, at \o <<i>>)
             a4 == Render("Dispatch", cx, a3, t.elems[i], 0, at \o <<i>>, <<>>)
             a5 == Emit(a4, "lit", <<44, 32>>, at)
         IN  Render("InlineLoop", cx, a5, t, i + 1, at, <<>>)

format_inline_table(cx, acc, t, at) ==
    LET a1 == Emit(acc, "lit", <<123>>, at)
        a2 == Render("InlineLoop", cx, a1, t, 1, at, <<>>)
        a3 == PopSeparator(a2, t.elems # <<>>)
        a4 == Emit(a3, "lit", <<125>>, at)
    IN  SetForceInline(a4, FALSE)

MlInlineLoop(cx, acc, t, i, at) ==
    IF i > Len(t.elems) \/ ~Ok(acc) THEN acc
    ELSE LET val == t.elems[i]
             a1 == SetForceInline(acc, TRUE)
             a2 == EmitComments(a1, val.com, t.fmt.indent_type, at \o <<i>>)
             a3 == EmitIndent(a2, t.fmt.indent_type, at \o <<i>>)
             a4 == Emit(a3, "raw_key", t.keys[i], at \o <<i>>)
             a5 == Emit(a4, "lit", <<32, 61, 32>>, at \o <<i>>)
             a6 == SetForceInline(a5, TRUE)
             a7 == Render("Dispatch", cx, a6, val, 0, at \o <<i>>, <<>>)
             a8 == Emit(a7, "lit", <<44, 10>>, at)
         IN  Render("MlInlineLoop", cx, a8, t, i + 1, at, <<>>)

format_ml_inline_table(cx, acc, t, at) ==
    LET a1 == Emit(acc, "lit", <<123, 10>>, at)
        a2 == AddIndent(a1, t.fmt.body_indent)
        a3 == Render("MlInlineLoop", cx, a2, t, 1, at, <<>>)
        a4 == PopSeparator(a3, t.elems # <<>>)
        a5 == AddIndent(a4, -t.fmt.body_indent)
        a6 == SetForceInline(a5, FALSE)
        a7 == AddIndent(a6, t.fmt.closing_indent)
        a8 == EmitIndent(a7, t.fmt.indent_type, at)
        a9 == AddIndent(a8, -t.fmt.closing_indent)
    IN  Emit(a9, "lit", <<125>>, at)

\* format_dotted_table, from entry i on; keys is its reference parameter.
format_dotted_table(cx, acc, t, keys, i, at) ==
    IF i > Len(t.elems) \/ ~Ok(acc) THEN acc
    ELSE LET val == t.elems[i]
             pushed == Append(keys, t.keys[i])
             a1 == EmitComments(acc, val.com, t.fmt.indent_type, at \o <<i>>)
             a2 == EmitIndent(a1, t.fmt.indent_type, at \o <<i>>)
             a3 == Emit(a2, "dotted_keys", format_keys(cx.sp, pushed), at \o <<i>>)
             a4 == Emit(a3, "lit", <<32, 61, 32>>, at \o <<i>>)
             a5 == SetForceInline(a4, TRUE)
             a6 == Render("Dispatch", cx, a5, val, 0, at \o <<i>>, <<>>)
             a7 == Emit(a6, "lit", <<10>>, at \o <<i>>)
             a8 == SetForceInline(a7, FALSE)
             done == IF /\ is_table(val)
                        /\ val.fmt.fmt # "oneline"
                        /\ val.fmt.fmt # "multiline_oneline"
                     THEN Render("format_dotted_table", cx, acc, val, 1, at \o <<i>>, pushed)
                     ELSE a8
         IN  Render("format_dotted_table", cx, done, t, i + 1, at, keys)

\* v.as_table_fmt() applied to the array v in the implicit branch: the accessor
\* either throws or yields whatever lies where a table keeps its format.
RECURSIVE CheckArrayElements(_, _, _, _)
CheckArrayElements(cx, acc, v, j) ==
    IF j > Len(v.elems) \/ ~Ok(acc) THEN acc
    ELSE IF v.elems[j].fmt.fmt # "multiline"
         THEN LET read == [acc EXCEPT !.misread = TRUE]
              IN  IF cx.misread = "throw" THEN Throw(read, "BadCast")
                  ELSE IF cx.misread # "implicit"
                       THEN Throw(read, "ImplicitTableChild")
                       ELSE CheckArrayElements(cx, read, v, j + 1)
         ELSE CheckArrayElements(cx, acc, v, j + 1)

\* What the loop of the implicit branch checks before it renders a child.
CheckImplicitChild(cx, acc, v) ==
    IF ~is_table(v) /\ ~is_array_of_tables(v) THEN Throw(acc, "ImplicitTableChild")
    ELSE IF is_table(v)
         THEN IF v.fmt.fmt # "multiline" /\ v.fmt.fmt # "implicit"
              THEN Throw(acc, "ImplicitTableChild")
              ELSE acc
         ELSE CheckArrayElements(cx, acc, v, 1)

\* The loop of the implicit branch, from entry i on.
ImplicitLoop(cx, acc, t, i, at) ==
    IF i > Len(t.elems) \/ ~Ok(acc) THEN acc
    ELSE LET a1 == CheckImplicitChild(cx, acc, t.elems[i])
             a2 == PushKey(a1, t.keys[i])
             a3 == Render("Dispatch", cx, a2, t.elems[i], 0, at \o <<i>>, <<>>)
             a4 == PopKey(a3)
         IN  Render("ImplicitLoop", cx, a4, t, i + 1, at, <<>>)

\* The multiline branch: the header, unless this is the root, then the body.
RenderMultilineTable(cx, acc, t, at) ==
    LET a1 == AddIndent(acc, t.fmt.name_indent)
        a2 == EmitComments(a1, t.com, t.fmt.indent_type, at)
        a3 == EmitIndent(a2, t.fmt.indent_type, at)
        a4 == AddIndent(a3, -t.fmt.name_indent)
        a5 == Emit(a4, "table_header",
                   <<91>> \o format_keys(cx.sp, acc.keys) \o <<93, 10>>, at)
    IN  Render("format_ml_table", cx, IF acc.keys # <<>> THEN a5 ELSE acc, t, 0, at, <<>>)

\* operator()(table_type, table_format_info, comment_type, source_location)
RenderTable(cx, acc, t, at) ==
    IF acc.force_inline
    THEN IF t.fmt.fmt = "multiline_oneline"
         THEN Render("format_ml_inline_table", cx, acc, t, 0, at, <<>>)
         ELSE Render("format_inline_table", cx, acc, t, 0, at, <<>>)
    ELSE CASE t.fmt.fmt = "multiline" -> Render("RenderMultilineTable", cx, acc, t, 0, at, <<>>)
           [] t.fmt.fmt = "oneline" -> Render("format_inline_table", cx, acc, t, 0, at, <<>>)
           [] t.fmt.fmt = "multiline_oneline" ->
                 Render("format_ml_inline_table", cx, acc, t, 0, at, <<>>)
           [] t.fmt.fmt = "dotted" ->
                 IF acc.keys = <<>> THEN Throw(acc, "MissingKey")
                 ELSE Render("format_dotted_table", cx, acc, t, 1, at, <<acc.keys[Len(acc.keys)]>>)
           [] OTHER -> Render("ImplicitLoop", cx, acc, t, 1, at, <<>>)

\* The table case of operator()(const value_type&).
DispatchTable(cx, acc, v, at) ==
    LET a1 == IF acc.keys = <<>>
              THEN EmitComments(acc, v.com, v.fmt.indent_type, at)
              ELSE acc
        a2 == EmitIfWritten(a1, Len(acc.out), <<10>>, at)
    IN  Render("RenderTable", cx, a2, v, 0, at, <<>>)

\* What an encoder of a scalar returned, appended or thrown.
EmitEncoded(acc, r, at) ==
    IF r.err # "none" THEN Throw(acc, r.err) ELSE Emit(acc, "scalar", r.str, at)

\* operator()(const value_type&)
Dispatch(cx, acc, v, at) ==
    LET a0 == Logged(acc, "enter", at)
        a1 == CASE v.kind = "boolean" ->
                     Emit(a0, "scalar",
                          IF v.b THEN <<116, 114, 117, 101>>
                                 ELSE <<102, 97, 108, 115, 101>>, at)
                [] v.kind = "integer" ->
                     EmitEncoded(a0, FormatInteger(cx.sp, v.i, v.fmt), at)
                [] v.kind = "string" ->
                     EmitEncoded(a0, FormatString(cx.sp, v.s, v.fmt), at)
                [] v.kind \in {"floating", "offset_datetime", "local_datetime",
                               "local_date", "local_time"} ->
                     Emit(a0, "scalar", v.text, at)
                [] v.kind = "array" -> Render("RenderArray", cx, a0, v, 0, at, <<>>)
                [] v.kind = "table" -> Render("DispatchTable", cx, a0, v, 0, at, <<>>)
                [] v.kind = "empty" /\ cx.sp.ext_null_value ->
                     Emit(a0, "scalar", <<110, 117, 108, 108>>, at)
                [] OTHER -> Throw(a0, "InvalidValue")
    IN  Logged(a1, "exit", at)

\* The renderers call one another through Render: f names the renderer, i is
\* the entry a loop is at and keys is format_dotted_table's reference parameter.
Render(f, cx, acc, v, i, at, keys) ==
    CASE f = "Dispatch" -> Dispatch(cx, acc, v, at)
      [] f = "DispatchTable" -> DispatchTable(cx, acc, v, at)
      [] f = "RenderArray" -> RenderArray(cx, acc, v, at)
      [] f = "AotLoop" -> AotLoop(cx, acc, v, i, at)
      [] f = "OnelineArrayLoop" -> OnelineArrayLoop(cx, acc, v, i, at)
      [] f = "MultilineArrayLoop" -> MultilineArrayLoop(cx, acc, v, i, at)
      [] f = "RenderTable" -> RenderTable(cx, acc, v, at)
      [] f = "RenderMultilineTable" -> RenderMultilineTable(cx, acc, v, at)
      [] f = "ImplicitLoop" -> ImplicitLoop(cx, acc, v, i, at)
      [] f = "format_ml_table" -> format_ml_table(cx, acc, v, at)
      [] f = "MlFirstPass" -> MlFirstPass(cx, acc, v, i, at)
      [] f = "MlSecondPass" -> MlSecondPass(cx, acc, v, i, at)
      [] f = "format_inline_table" -> format_inline_table(cx, acc, v, at)
      [] f = "InlineLoop" -> InlineLoop(cx, acc, v, i, at)
      [] f = "format_ml_inline_table" ->
            format_ml_inline_table(cx, acc, v, at)
      [] f = "MlInlineLoop" -> MlInlineLoop(cx, acc, v, i, at)
      [] f = "format_dotted_table" ->
            format_dotted_table(cx, acc, v, keys, i, at)

\* operator()(const std::vector<key_type>&, const value_type&): the keys are
\* pushed on keys_, then the value is dispatched on.  The other two entry
\* points are the cases of one key and of no key.
Serialize(cx, ks, v) == Render("Dispatch", cx, StartOfCall(ks), v, 0, <<>>, <<>>)

(***************************************************************************)
(* The value trees the calls are given: every tree of at most MaxNodes     *)
(* values whose containers hold at most MaxBreadth values, over the given  *)
(* leaves, forms and comment containers.                                   *)
(***************************************************************************)
MaxNodes == 3
MaxHeaderNodes == 4
MaxBreadth == 2

\* The keys of a table's entries, in the container's order: a, "b.c", d, e.
EntryKeys == << <<97>>, <<98, 46, 99>>, <<100>>, <<101>> >>

\* A comment container: empty, or the one comment "c".
NoComments  == <<>>
OneComment  == << <<99>> >>

\* The indentation the tables and the arrays of a tree are given.
TableIndents == [name |-> 1, body |-> 2, closing |-> 1]
ArrayIndents == [body |-> 4, closing |-> 1]

NewTable(elems, f, com) ==
    Table(SubSeq(EntryKeys, 1, Len(elems)), elems,
          TableFormatInfo(f, TableIndents.name, TableIndents.body,
                          TableIndents.closing, "space"), com)

NewArray(elems, f, com) ==
    Array(elems, ArrayFormatInfo(f, ArrayIndents.body, ArrayIndents.closing,
                                 "space"), com)

PlainInteger(i, f) == Integer(i, IntegerFormatInfo(f, 0, 0, FALSE, <<>>))

Family(leaves, tables, arrays, coms) ==
    [leaves |-> leaves, tables |-> tables, arrays |-> arrays, coms |-> coms]

RECURSIVE ValuesOfSize(_, _)
RECURSIVE Forests(_, _, _)
\* The sequences of at most w values that hold m values in all.
Forests(G, m, w) ==
    IF m = 0 THEN {<<>>}
    ELSE IF w = 0 THEN {}
    ELSE UNION {{<<v>> \o f : v \in ValuesOfSize(G, k), f \in Forests(G, m - k, w - 1)}
                : k \in 1..m}

ValuesOfSize(G, n) ==
    (IF n = 1 THEN G.leaves ELSE {})
    \cup {NewTable(f, form, com) :
            f \in Forests(G, n - 1, MaxBreadth), form \in G.tables, com \in G.coms}
    \cup {NewArray(f, form, com) :
            f \in Forests(G, n - 1, MaxBreadth), form \in G.arrays, com \in G.coms}

ValuesUpTo(G, n) == UNION {ValuesOfSize(G, k) : k \in 1..n}

\* Every form and both comment containers, over a decimal 1 and a
\* hexadecimal -1.
AllForms ==
    Family({PlainInteger(1, "dec"), PlainInteger(-1, "hex")},
           TableFormats, ArrayFormats, {NoComments, OneComment})

\* The forms that are written under headers, without comments, over a
\* decimal 1: these trees are taken deeper, up to MaxHeaderNodes values.
HeaderForms ==
    Family({PlainInteger(1, "dec")}, {"multiline", "implicit"},
           {"default_format", "array_of_tables"}, {NoComments})

Values == ValuesUpTo(AllForms, MaxNodes) \cup ValuesUpTo(HeaderForms, MaxHeaderNodes)

\* What as_table_fmt() may yield on a value that is not a table.
MisreadOutcomes == {"throw"} \cup TableFormats

(***************************************************************************)
(* The serializer as a state machine: it is constructed, then one of the   *)
(* three entry points is called.                                           *)
(***************************************************************************)
InitTree ==
    /\ spec_ = DefaultSpec
    /\ force_inline_ = FALSE
    /\ current_indent_ = 0
    /\ keys_ = <<>>
    /\ pc = "idle"
    /\ arg = [ks |-> <<>>, v |-> Empty, misread |-> "throw"]
    /\ retval = <<>>
    /\ replaced = 0
    /\ result = NoResult

\* What as_table_fmt() may yield in a call that ends as r when the accessor
\* throws: "throw", and a format too if the call applied it to a value that
\* is not a table.
OutcomesOf(r) == IF r.misread THEN MisreadOutcomes ELSE {"throw"}

\* What a call leaves behind when the serializer ends as r.
Returns(ks, v, m, r) ==
    /\ arg' = [ks |-> ks, v |-> v, misread |-> m]
    /\ keys_' = r.keys
    /\ force_inline_' = r.force_inline
    /\ current_indent_' = r.indent
    /\ result' = [err |-> r.err,
                  str |-> IF r.err = "none" THEN Flatten(r.out) ELSE <<>>,
                  out |-> r.out, log |-> r.log, misread |-> r.misread]
    /\ pc' = "done"
    /\ UNCHANGED <<spec_, retval, replaced>>

\* One call: the keys are pushed, the value is dispatched on, and the fields
\* are left as the call leaves them.
Call(ks, v) ==
    \E m \in OutcomesOf(Serialize([sp |-> spec_, misread |-> "throw"], ks, v)) :
        Returns(ks, v, m, Serialize([sp |-> spec_, misread |-> m], ks, v))

\* operator()(const value_type&)
CallValue ==
    /\ pc = "idle"
    /\ \E v \in Values : Call(<<>>, v)

\* operator()(const key_type&, const value_type&)
CallKeyValue ==
    /\ pc = "idle"
    /\ \E v \in Values : Call(<< <<120>> >>, v)

\* operator()(const std::vector<key_type>&, const value_type&)
CallKeysValue ==
    /\ pc = "idle"
    /\ \E v \in Values : Call(<< <<120>>, <<121, 32>> >>, v)

NextTree == CallValue \/ CallKeyValue \/ CallKeysValue

SpecTree == InitTree /\ [][NextTree]_vars

(***************************************************************************)
(* Claims about the renderers.  A position is the sequence of entry        *)
(* indexes that leads from the value a call was given to a value in it.    *)
(***************************************************************************)
IsContainer(v) == is_table(v) \/ is_array(v)

RECURSIVE Positions(_)
Positions(v) ==
    {<<>>} \cup
    (IF IsContainer(v)
     THEN UNION {{<<i>> \o q : q \in Positions(v.elems[i])} : i \in 1..Len(v.elems)}
     ELSE {})

RECURSIVE ValueAt(_, _)
ValueAt(v, p) == IF p = <<>> THEN v ELSE ValueAt(v.elems[Head(p)], Tail(p))

IsPrefix(p, q) == Len(p) <= Len(q) /\ SubSeq(q, 1, Len(p)) = p

TreeDone == pc = "done"

\* The dispatches of the call: the entries of the log written on entering
\* operator()(const value_type&).
Entered == {k \in 1..Len(result.log) : result.log[k].ev = "enter"}

\* The pieces of the text written for the value at position q alone.
PiecesAt(q, kinds) ==
    {n \in 1..Len(result.out) : result.out[n].at = q /\ result.out[n].t \in kinds}

\* The pieces of the text written for the value at position q and for the
\* values in it.
PiecesUnder(q) == {n \in 1..Len(result.out) : IsPrefix(q, result.out[n].at)}

IsNegativeNonDecimal(v) ==
    v.kind = "integer" /\ v.i < 0 /\ v.fmt.fmt \in {"hex", "oct", "bin"}

NegativeNonDecimalAt ==
    {p \in Positions(arg.v) : IsNegativeNonDecimal(ValueAt(arg.v, p))}

RenderedAsArrayOfTables(e) ==
    LET a == ValueAt(arg.v, e.at)
    IN  /\ e.ev = "enter"
        /\ is_array(a)
        /\ ResolveArrayFormat(spec_, e.keys, e.force_inline,
                              a.elems, a.fmt, a.com).f = "array_of_tables"

\* C7: when a call succeeds, every array it rendered in array-of-tables form
\* holds tables only, and every element has one header, `[[<path>]]`, whose
\* path is the encoded key path on entering the array renderer.
C7_ArrayOfTablesHeadersSharePath ==
    (TreeDone /\ result.err = "none") =>
        \A k \in Entered :
            RenderedAsArrayOfTables(result.log[k]) =>
                LET e == result.log[k]
                    a == ValueAt(arg.v, e.at)
                IN  \A i \in 1..Len(a.elems) :
                        /\ is_table(a.elems[i])
                        /\ Cardinality(PiecesAt(e.at \o <<i>>, {"aot_header"})) = 1
                        /\ \A n \in PiecesAt(e.at \o <<i>>, {"aot_header"}) :
                              result.out[n].s =
                                 <<91, 91>> \o format_keys(spec_, e.keys)
                                 \o <<93, 93, 10>>

\* An array of two tables rendered in array-of-tables form whose first table
\* holds a table or an array of tables written under a header of its own.
C7_Witness ==
    /\ TreeDone
    /\ result.err = "none"
    /\ \E k \in Entered :
          /\ RenderedAsArrayOfTables(result.log[k])
          /\ LET a == ValueAt(arg.v, result.log[k].at)
             IN  /\ Len(a.elems) = 2
                 /\ a.elems[1].elems # <<>>
                 /\ IsContainer(a.elems[1].elems[1])
                 /\ PiecesAt(result.log[k].at \o <<1, 1>>,
                             {"table_header"}) # {}
                    \/ PiecesAt(result.log[k].at \o <<1, 1, 1>>,
                                {"aot_header"}) # {}

\* The tables the call rendered through the implicit branch: dispatched on
\* outside an inline context, with the implicit form.
ImplicitRendered ==
    {k \in Entered :
        LET t == ValueAt(arg.v, result.log[k].at)
        IN  is_table(t) /\ t.fmt.fmt = "implicit" /\ ~result.log[k].force_inline}

\* The child at position q is written under headers: a table under its
\* `[...]` header, an array as `[[...]]` blocks, one for each element and
\* with no bracket of its own, or an implicit table, which writes nothing
\* of its own.
WrittenUnderHeaders(c, q) ==
    CASE is_table(c) /\ c.fmt.fmt = "implicit" ->
            PiecesAt(q, {"lit", "key", "scalar", "table_header"}) = {}
      [] is_table(c) ->
            /\ PiecesAt(q, {"table_header"}) # {}
            /\ \A n \in PiecesAt(q, {"lit"}) : result.out[n].s = <<10>>
      [] is_array(c) ->
            /\ PiecesAt(q, {"lit"}) = {}
            /\ \A j \in 1..Len(c.elems) : PiecesAt(q \o <<j>>, {"aot_header"}) # {}
      [] OTHER -> FALSE

\* C8: when a call succeeds, no direct child of a table rendered in implicit
\* form is written as a `key = value` line or as a bare value: each is written
\* as a `[...]` header block, as `[[...]]` header blocks, or is implicit itself.
\* The calls in which the validation looks for a table format in an array are
\* left out: what they do is C9's matter.
C8_ImplicitChildrenUnderHeaders ==
    (TreeDone /\ result.err = "none" /\ ~result.misread) =>
        \A k \in ImplicitRendered :
            LET p == result.log[k].at
                t == ValueAt(arg.v, p)
            IN  \A i \in 1..Len(t.elems) :
                    WrittenUnderHeaders(t.elems[i], p \o <<i>>)

\* C8 for the implicit tables whose children that are arrays have the hint
\* default_format or array_of_tables and carry no comment.
C8_UnlessArrayHintedInline ==
    (TreeDone /\ result.err = "none" /\ ~result.misread) =>
        \A k \in ImplicitRendered :
            LET p == result.log[k].at
                t == ValueAt(arg.v, p)
            IN  \A i \in 1..Len(t.elems) :
                    \/ /\ is_array(t.elems[i])
                       /\ \/ t.elems[i].fmt.fmt \in {"oneline", "multiline"}
                          \/ t.elems[i].com # <<>>
                    \/ WrittenUnderHeaders(t.elems[i], p \o <<i>>)

IsHeaderTable(v) == is_table(v) /\ v.fmt.fmt \in {"multiline", "implicit"}

\* A child an implicit table may hold: a table of multiline or implicit form,
\* or an array of tables whose every element is one.
ValidImplicitChild(c) ==
    \/ IsHeaderTable(c)
    \/ /\ is_array_of_tables(c)
       /\ \A j \in 1..Len(c.elems) : IsHeaderTable(c.elems[j])

\* Some table rendered in implicit form holds a child it may not hold.
SomeInvalidImplicitChild ==
    \E k \in ImplicitRendered :
        LET t == ValueAt(arg.v, result.log[k].at)
        IN  \E i \in 1..Len(t.elems) : ~ValidImplicitChild(t.elems[i])

\* C9: a call in which no renderer but the implicit branch's validation
\* raises an error fails with ImplicitTableChild exactly when a table rendered
\* in implicit form holds a child that is neither a table of multiline or
\* implicit form nor an array of such tables; the validation raises no error
\* of another kind.
C9_ImplicitTableChildIffInvalidChild ==
    (TreeDone /\ result.err \in {"none", "ImplicitTableChild", "BadCast"}) =>
        /\ result.err # "BadCast"
        /\ (result.err = "ImplicitTableChild") <=> SomeInvalidImplicitChild

\* C9 for the calls in which the validation never looks for a table format
\* in an array.
C9_UnlessFormatReadFromArray ==
    (/\ TreeDone /\ result.err \in {"none", "ImplicitTableChild", "BadCast"}
     /\ ~result.misread) =>
        /\ result.err # "BadCast"
        /\ (result.err = "ImplicitTableChild") <=> SomeInvalidImplicitChild

\* The entries the claim calls header-style: tables written under a header,
\* and arrays of tables written as `[[...]]` blocks.
HeaderStyle(v) ==
    \/ IsHeaderTable(v)
    \/ is_array_of_tables(v) /\ v.fmt.fmt \in {"default_format", "array_of_tables"}

\* The positions of the tables format_ml_table rendered.
MlTableRendered ==
    {result.log[k].at :
        k \in {n \in 1..Len(result.log) : result.log[n].ev = "format_ml_table"}}

AllBefore(A, B) == \A a \in A, b \in B : a < b

\* C10: when a call succeeds, in every table format_ml_table rendered the text
\* of every entry that is not header-style stands before the text of every
\* header-style entry, and the entries of each of the two kinds stand in the
\* container's order.
C10_LeavesBeforeSubsections ==
    (TreeDone /\ result.err = "none") =>
        \A p \in MlTableRendered :
            LET t == ValueAt(arg.v, p)
            IN  \A i, j \in 1..Len(t.elems) :
                    (\/ ~HeaderStyle(t.elems[i]) /\ HeaderStyle(t.elems[j])
                     \/ /\ HeaderStyle(t.elems[i]) = HeaderStyle(t.elems[j])
                        /\ i < j)
                    => AllBefore(PiecesUnder(p \o <<i>>), PiecesUnder(p \o <<j>>))

\* A table whose first entry is header-style and whose second is not, both
\* written.
C10_Witness ==
    /\ TreeDone
    /\ result.err = "none"
    /\ \E p \in MlTableRendered :
          LET t == ValueAt(arg.v, p)
          IN  /\ Len(t.elems) = 2
              /\ HeaderStyle(t.elems[1])
              /\ ~HeaderStyle(t.elems[2])
              /\ PiecesUnder(p \o <<1>>) # {}
              /\ PiecesUnder(p \o <<2>>) # {}

(***************************************************************************)
(* Claims about the fields the renderers keep: force_inline_ and keys_.    *)
(***************************************************************************)
\* The container at position q was written in an inline form: it opened
\* with a bracket or a brace of its own.
InlineContainerAt(q) ==
    \E n \in PiecesAt(q, {"lit"}) : Head(result.out[n].s) \in {91, 123}

ProperPrefixes(p) == {SubSeq(p, 1, n) : n \in 0..(Len(p) - 1)}

\* The value at position p is a descendant of an inline-context container: a
\* container above it was written in an inline form, or it is the leaf of a
\* dotted table, written after its dotted keys.
InInlineContext(p) ==
    \/ \E q \in ProperPrefixes(p) : InlineContainerAt(q)
    \/ PiecesAt(p, {"dotted_keys"}) # {}

\* C11: at every dispatch on a value, force_inline_ is true exactly when the
\* value is a descendant of an inline-context container.
C11_ForceInlineIffInInlineContext ==
    TreeDone =>
        \A k \in Entered :
            result.log[k].force_inline <=> InInlineContext(result.log[k].at)

\* A value dispatched on outside every inline context after a sibling that
\* was written in an inline form and is finished, a value inside that sibling
\* having been dispatched on before.
C11_Witness ==
    /\ TreeDone
    /\ result.err = "none"
    /\ \E k \in Entered :
          LET p == result.log[k].at
          IN  /\ Len(p) = 1
              /\ p[1] = 2
              /\ ~result.log[k].force_inline
              /\ InlineContainerAt(<<1>>)
              /\ \E j \in Entered :
                    /\ j < k
                    /\ result.log[j].at = <<1, 1>>
                    /\ result.log[j].force_inline

\* The keys of the table entries on the way from the root value v to the
\* value at position p.
RECURSIVE KeyPath(_, _)
KeyPath(v, p) ==
    IF p = <<>> THEN <<>>
    ELSE (IF is_table(v) THEN <<v.keys[Head(p)]>> ELSE <<>>)
         \o KeyPath(v.elems[Head(p)], Tail(p))

\* The value at position p lies in a table written in an inline form, or in
\* a dotted table.
InsideInlineOrDottedTable(p) ==
    \/ \E q \in ProperPrefixes(p) :
          is_table(ValueAt(arg.v, q)) /\ InlineContainerAt(q)
    \/ \E q \in ProperPrefixes(p) \cup {p} : PiecesAt(q, {"dotted_keys"}) # {}

\* C12: at every dispatch on a value, keys_ is the absolute path to the
\* value: the keys the call was given, then the key of every enclosing table
\* entry.
C12_KeysAreAbsolutePath ==
    TreeDone =>
        \A k \in Entered :
            result.log[k].keys = arg.ks \o KeyPath(arg.v, result.log[k].at)

\* C12 for the values that lie in no inline table and in no dotted table.
C12_UnlessInsideInlineOrDottedTable ==
    TreeDone =>
        \A k \in Entered :
            ~InsideInlineOrDottedTable(result.log[k].at) =>
                result.log[k].keys = arg.ks \o KeyPath(arg.v, result.log[k].at)

(***************************************************************************)
(* Claims about the form an array with the default hint is given.          *)
(***************************************************************************)
\* The arrays with the hint default_format the call dispatched on.
DefaultHintArrays ==
    {k \in Entered :
        LET a == ValueAt(arg.v, result.log[k].at)
        IN  is_array(a) /\ a.fmt.fmt = "default_format"}

\* The array a at position q was written as `[[...]]` blocks: one header for
\* each element and no bracket of its own.
WrittenAsArrayOfTables(a, q) ==
    /\ \A j \in 1..Len(a.elems) : PiecesAt(q \o <<j>>, {"aot_header"}) # {}
    /\ PiecesAt(q, {"lit"}) = {}

\* The array at position q was written between brackets, on one line or on
\* several.
WrittenOneline(q) ==
    /\ \E n \in PiecesAt(q, {"lit"}) : result.out[n].s = <<91>>
    /\ \E n \in PiecesAt(q, {"lit"}) : result.out[n].s = <<93>>

WrittenMultiline(q) ==
    /\ \E n \in PiecesAt(q, {"lit"}) : result.out[n].s = <<91, 10>>
    /\ \E n \in PiecesAt(q, {"lit"}) : result.out[n].s = <<93>>

WrittenBracketed(a, q) ==
    /\ WrittenOneline(q) \/ WrittenMultiline(q)
    /\ \A j \in 1..Len(a.elems) : PiecesAt(q \o <<j>>, {"aot_header"}) = {}

\* What the claim asks of an array before it is written as `[[...]]` blocks,
\* e being the entry of the log written when the array was dispatched on.
ArrayOfTablesExpected(a, e) ==
    /\ arg.ks \o KeyPath(arg.v, e.at) # <<>>
    /\ a.elems # <<>>
    /\ a.com = <<>>
    /\ \A j \in 1..Len(a.elems) : a.elems[j].kind = "table"
    /\ ~e.force_inline

\* C13: when a call succeeds, an array with the default hint is written as
\* `[[...]]` blocks exactly when the key path is not empty, the array is not
\* empty, it has no comment, all its elements are tables and force_inline_ is
\* not set; otherwise it is written between brackets.
C13_DefaultArrayOfTablesIff ==
    (TreeDone /\ result.err = "none") =>
        \A k \in DefaultHintArrays :
            LET e == result.log[k]
                a == ValueAt(arg.v, e.at)
            IN  IF ArrayOfTablesExpected(a, e)
                THEN WrittenAsArrayOfTables(a, e.at)
                ELSE WrittenBracketed(a, e.at)

\* An array of tables with the default hint and a comment, under a key and
\* outside every inline context, written between brackets.
C13_Witness ==
    /\ TreeDone
    /\ result.err = "none"
    /\ \E k \in DefaultHintArrays :
          LET e == result.log[k]
              a == ValueAt(arg.v, e.at)
          IN  /\ a.com # <<>>
              /\ a.elems # <<>>
              /\ \A j \in 1..Len(a.elems) : is_table(a.elems[j])
              /\ e.keys # <<>>
              /\ ~e.force_inline
              /\ WrittenBracketed(a, e.at)

(***************************************************************************)
(* Arrays with the default hint, given to the entry points on their own:   *)
(* at most MaxArrayLen elements, drawn from scalars of every kind and of   *)
(* the lengths around which the array is broken over several lines.        *)
(***************************************************************************)
MaxArrayLen == 3

\* The widths the decimal integers of the arrays are given: their encoding
\* is max(width, 1) characters long.
ElementWidths == {0, 28, 29, 30, 43, 44, 48, 49, 58, 60, 61}

\* The lengths of the basic strings of the arrays.
ElementStringLengths == {0, 56, 57}

WithComments(v, com) == [v EXCEPT !.com = com]

ArrayElements ==
    {Integer(1, IntegerFormatInfo("dec", w, 0, FALSE, <<>>)) : w \in ElementWidths}
    \cup {String(Fill(n, 97), StringFormatInfo("basic", FALSE)) :
            n \in ElementStringLengths}
    \cup {String(<<97>>, StringFormatInfo("multiline_basic", FALSE)),
          Boolean(TRUE), Boolean(FALSE),
          Scalar("floating", <<49, 46, 48>>),
          Scalar("local_date", <<50, 48, 50, 52, 45, 48, 49, 45, 48, 49>>),
          Scalar("local_time", <<49, 50, 58, 48, 48, 58, 48, 48>>),
          Scalar("local_datetime",
                 <<50, 48, 50, 52, 45, 48, 49, 45, 48, 49, 84,
                   49, 50, 58, 48, 48, 58, 48, 48>>),
          Scalar("offset_datetime",
                 <<50, 48, 50, 52, 45, 48, 49, 45, 48, 49, 84,
                   49, 50, 58, 48, 48, 58, 48, 48, 90>>),
          NewArray(<<>>, "default_format", NoComments),
          NewTable(<<>>, "oneline", NoComments),
          WithComments(PlainInteger(1, "dec"), OneComment)}

RECURSIVE ElementsOfLen(_)
ElementsOfLen(n) ==
    IF n = 0 THEN {<<>>}
    ELSE {Append(s, e) : s \in ElementsOfLen(n - 1), e \in ArrayElements}

DefaultArrays ==
    {NewArray(s, "default_format", NoComments) :
        s \in UNION {ElementsOfLen(n) : n \in 0..MaxArrayLen}}

InitArr == InitTree

\* operator()(const value_type&) on an array with the default hint
CallArrayValue ==
    /\ pc = "idle"
    /\ \E a \in DefaultArrays : Call(<<>>, a)

\* operator()(const key_type&, const value_type&) on an array with the
\* default hint
CallArrayKeyValue ==
    /\ pc = "idle"
    /\ \E a \in DefaultArrays : Call(<< <<120>> >>, a)

NextArr == CallArrayValue \/ CallArrayKeyValue

SpecArr == InitArr /\ [][NextArr]_vars

(***************************************************************************)
(* Claims about the arrays with the default hint that are written between  *)
(* brackets.                                                               *)
(***************************************************************************)
\* The length of what the encoder wrote for the scalar at position q.
RenderedLength(q) ==
    LET n == CHOOSE n \in PiecesAt(q, {"scalar"}) : TRUE
    IN  IF PiecesAt(q, {"scalar"}) = {} THEN 0 ELSE Len(result.out[n].s)

\* What the claim has the element e, at position q, add to the approximate
\* length.
ClaimedLength(e, q) ==
    CASE e.kind \in {"boolean", "integer", "floating"} -> RenderedLength(q)
      [] e.kind = "string" -> RenderedLength(q) + 2
      [] e.kind = "local_date" -> 10
      [] e.kind = "local_time" -> 15
      [] OTHER -> 0

\* The approximate length when the k-th element of the array a, at position
\* q, has been added: the elements up to it, and 2 after each one before it.
RECURSIVE CumulativeLength(_, _, _)
CumulativeLength(a, q, k) ==
    IF k = 0 THEN 0
    ELSE CumulativeLength(a, q, k - 1) + (IF k > 1 THEN 2 ELSE 0)
         + ClaimedLength(a.elems[k], q \o <<k>>)

\* What the claim asks of an array before it is written on one line.
OnelineExpected(a, q) ==
    /\ \A j \in 1..Len(a.elems) :
          /\ a.elems[j].com = <<>>
          /\ a.elems[j].kind \notin {"array", "table", "offset_datetime",
                                     "local_datetime"}
          /\ a.elems[j].kind = "string" =>
                a.elems[j].fmt.fmt \notin {"multiline_basic", "multiline_literal"}
    /\ \A k \in 1..Len(a.elems) : CumulativeLength(a, q, k) <= 60

\* C14: when a call succeeds, an array with the default hint that is not
\* written as `[[...]]` blocks is written on one line exactly when no element
\* has comments, none is an array, a table, an offset or local date-time or
\* a multi-line string, and the approximate length is at most 60 after each
\* element; otherwise it is written on several lines.
C14_DefaultOnelineIff ==
    (TreeDone /\ result.err = "none") =>
        \A k \in DefaultHintArrays :
            LET q == result.log[k].at
                a == ValueAt(arg.v, q)
            IN  ~WrittenAsArrayOfTables(a, q) =>
                    IF OnelineExpected(a, q)
                    THEN WrittenOneline(q) /\ ~WrittenMultiline(q)
                    ELSE WrittenMultiline(q) /\ ~WrittenOneline(q)

\* An array of three scalars written on one line whose approximate length
\* is exactly 60 after its last element.
C14_Witness ==
    /\ TreeDone
    /\ result.err = "none"
    /\ is_array(arg.v)
    /\ Len(arg.v.elems) = 3
    /\ OnelineExpected(arg.v, <<>>)
    /\ CumulativeLength(arg.v, <<>>, 3) = 60
    /\ WrittenOneline(<<>>)

(***************************************************************************)
(* Claims about the tables written between braces.                         *)
(***************************************************************************)
\* The text written for the value at position q and for the values in it.
TextUnder(q) == Flatten(SelectSeq(result.out, LAMBDA x : IsPrefix(q, x.at)))

\* The text of the pieces n to m of the output.
TextBetween(n, m) == Flatten(SubSeq(result.out, n, m))

\* The last of a non-empty set of pieces.
LastOf(S) == CHOOSE n \in S : \A m \in S : m <= n

\* The pieces, at position q, that are the literal s.
LiteralsAt(q, s) == {n \in PiecesAt(q, {"lit"}) : result.out[n].s = s}

\* The tables the call wrote in oneline form: dispatched on, and opened with
\* a brace that no newline follows.
OnelineTables ==
    {k \in Entered : /\ is_table(ValueAt(arg.v, result.log[k].at))
                     /\ LiteralsAt(result.log[k].at, <<123>>) # {}}

\* The text written for the entries of the table t, at position q, from the
\* i-th on, joined by `, `.
RECURSIVE JoinedEntries(_, _, _)
JoinedEntries(t, q, i) ==
    IF i > Len(t.elems) THEN <<>>
    ELSE TextUnder(q \o <<i>>)
         \o (IF i < Len(t.elems) THEN <<44, 32>> ELSE <<>>)
         \o JoinedEntries(t, q, i + 1)

\* The text written for the i-th entry of the table t, at position q, is
\* `key = value`: the encoded key, ` = `, and a value.
IsKeyValue(t, q, i) ==
    LET head == format_key(spec_, t.keys[i]) \o <<32, 61, 32>>
        text == TextUnder(q \o <<i>>)
    IN  /\ Len(text) > Len(head)
        /\ SubSeq(text, 1, Len(head)) = head

\* The comments written inside the braces of the table t at position q,
\* opened by the n-th piece, for the table itself or for the values of its
\* entries.
CommentsInsideBraces(t, q, n) ==
    {m \in n..Len(result.out) :
        /\ result.out[m].t = "comment"
        /\ \/ result.out[m].at = q
           \/ \E i \in 1..Len(t.elems) : result.out[m].at = q \o <<i>>}

\* C15: when a call succeeds, a table written in oneline form is `{`, its
\* entries as `key = value` joined by `, `, and `}`; and no comment of the
\* table or of the value of one of its entries is written inside the braces.
C15_OnelineTableExactAndCommentFree ==
    (TreeDone /\ result.err = "none") =>
        \A k \in OnelineTables :
            LET q == result.log[k].at
                t == ValueAt(arg.v, q)
                n == CHOOSE n \in LiteralsAt(q, <<123>>) : TRUE
            IN  /\ LiteralsAt(q, <<125>>) # {}
                /\ TextBetween(n, LastOf(LiteralsAt(q, <<125>>)))
                      = <<123>> \o JoinedEntries(t, q, 1) \o <<125>>
                /\ \A i \in 1..Len(t.elems) : IsKeyValue(t, q, i)
                /\ CommentsInsideBraces(t, q, n) = {}

\* C15 for the tables written in oneline form while keys_ is not empty.
C15_UnlessKeysEmpty ==
    (TreeDone /\ result.err = "none") =>
        \A k \in OnelineTables :
            LET q == result.log[k].at
                t == ValueAt(arg.v, q)
                n == CHOOSE n \in LiteralsAt(q, <<123>>) : TRUE
            IN  /\ LiteralsAt(q, <<125>>) # {}
                /\ TextBetween(n, LastOf(LiteralsAt(q, <<125>>)))
                      = <<123>> \o JoinedEntries(t, q, 1) \o <<125>>
                /\ \A i \in 1..Len(t.elems) : IsKeyValue(t, q, i)
                /\ result.log[k].keys # <<>> => CommentsInsideBraces(t, q, n) = {}

\* The tables the call wrote in multiline_oneline form: dispatched on, and
\* opened with a brace and a newline.
MultilineOnelineTables ==
    {k \in Entered : /\ is_table(ValueAt(arg.v, result.log[k].at))
                     /\ LiteralsAt(result.log[k].at, <<123, 10>>) # {}}

\* `,` and a newline are written right after the text of the i-th entry of
\* the table at position q.
EntryEndsItsLine(q, i) ==
    /\ PiecesUnder(q \o <<i>>) # {}
    /\ LastOf(PiecesUnder(q \o <<i>>)) + 1 \in LiteralsAt(q, <<44, 10>>)

\* The closing brace of the table at position q, with the indentation
\* before it, starts a line.
ClosingBraceStartsLine(q) ==
    /\ LiteralsAt(q, <<125>>) # {}
    /\ LET c    == LastOf(LiteralsAt(q, <<125>>))
           prev == IF result.out[c - 1].t = "indent" /\ result.out[c - 1].at = q
                   THEN c - 2 ELSE c - 1
           s    == result.out[prev].s
       IN  s[Len(s)] = 10

\* C16: when a call succeeds, a table written in multiline_oneline form has
\* `key = value,` and a newline for every entry, the last one too, and its
\* closing brace starts a line.
C16_EveryEntryEndsWithCommaNewline ==
    (TreeDone /\ result.err = "none") =>
        \A k \in MultilineOnelineTables :
            LET q == result.log[k].at
                t == ValueAt(arg.v, q)
            IN  /\ \A i \in 1..Len(t.elems) : EntryEndsItsLine(q, i)
                /\ ClosingBraceStartsLine(q)

\* C16 for the entries before the last one, and for the closing brace of the
\* tables without entries.
C16_UnlessLastEntry ==
    (TreeDone /\ result.err = "none") =>
        \A k \in MultilineOnelineTables :
            LET q == result.log[k].at
                t == ValueAt(arg.v, q)
            IN  /\ \A i \in 1..(Len(t.elems) - 1) : EntryEndsItsLine(q, i)
                /\ t.elems = <<>> => ClosingBraceStartsLine(q)
                /\ t.elems # <<>> =>
                      /\ ~EntryEndsItsLine(q, Len(t.elems))
                      /\ ~ClosingBraceStartsLine(q)

(***************************************************************************)
(* Claims about the decimal rendering of an integer.                       *)
(***************************************************************************)
\* t is an optional sign followed only by decimal digits and `_`.
IsSignedDigits(t) ==
    \A p \in 1..Len(t) :
        \/ IsDigitOf(t[p], "dec")
        \/ t[p] = 95
        \/ p = 1 /\ t[p] \in {43, 45}

\* The number of characters of the decimal number i, sign included, when
\* nothing pads it.
DecimalLength(i) ==
    LET m == IF i < 0 THEN -i ELSE i
    IN  (IF i < 0 THEN 1 ELSE 0)
        + (IF m < 10 THEN 1 ELSE IF m < 100 THEN 2 ELSE 3)

\* C17: the decimal rendering, before any suffix, is an optional sign
\* followed only by digits and `_`, and has at least `width` characters: it
\* is padded with zeros after the sign, and with no other character.
C17_DecimalZeroPadded ==
    (IntegerDone /\ arg.fmt.fmt = "dec") =>
        /\ IsSignedDigits(IntegerBody)
        /\ Len(IntegerBody) >= arg.fmt.width
        /\ arg.i < 0 => IntegerBody[1] = 45

\* C17 for the integers that are not shorter than the width.
C17_UnlessShorterThanWidth ==
    (IntegerDone /\ arg.fmt.fmt = "dec" /\ DecimalLength(arg.i) >= arg.fmt.width) =>
        /\ IsSignedDigits(IntegerBody)
        /\ Len(IntegerBody) >= arg.fmt.width
        /\ arg.i < 0 => IntegerBody[1] = 45

(***************************************************************************)
(* Claims about the blank line in the body of a multi-line table.          *)
(***************************************************************************)
\* The text of the entries of the table at p that are header-style (hs) or
\* that are not.
BlockPieces(p, hs) ==
    LET t == ValueAt(arg.v, p)
    IN  UNION {PiecesUnder(p \o <<i>>) :
                 i \in {j \in 1..Len(t.elems) : HeaderStyle(t.elems[j]) = hs}}

LeafBlockNonEmpty(p) == BlockPieces(p, FALSE) # {}

SubsectionBlockNonEmpty(p) == BlockPieces(p, TRUE) # {}

\* The body of the table at p has a line of its own that is empty, written
\* after the text of an entry of the table.
BlankLineAfterLeaves(p) ==
    \E n \in PiecesAt(p, {"lit"}) :
        /\ result.out[n].s = <<10>>
        /\ \E m \in BlockPieces(p, FALSE) : m < n

\* C18: when a call succeeds, the body of every table format_ml_table
\* rendered has the blank line after its leaf block exactly when the leaf
\* block and the subsection block are both non-empty.
C18_BlankLineIffBothBlocks ==
    (TreeDone /\ result.err = "none") =>
        \A p \in MlTableRendered :
            BlankLineAfterLeaves(p)
                <=> (LeafBlockNonEmpty(p) /\ SubsectionBlockNonEmpty(p))

\* C18 for the tables that have a subsection block.
C18_UnlessNoSubsection ==
    (TreeDone /\ result.err = "none") =>
        \A p \in MlTableRendered :
            SubsectionBlockNonEmpty(p) =>
                (BlankLineAfterLeaves(p) <=> LeafBlockNonEmpty(p))

(***************************************************************************)
(* The basic form of the string encoder over every byte.                   *)
(***************************************************************************)
MaxEscLen == 2

\* The values of a byte of a std::string.
Bytes == 0..255

ByteStrings ==
    {<<>>} \cup UNION {[1..n -> Bytes] : n \in 1..MaxEscLen}

InitEsc == InitStr

\* A call of the string encoder in the basic form.
CallBasicString ==
    /\ pc = "idle"
    /\ \E s \in ByteStrings :
          /\ arg' = [s |-> s, fmt |-> StringFormatInfo("basic", FALSE)]
          /\ result' = FormatString(spec_, s, StringFormatInfo("basic", FALSE))
    /\ pc' = "done"
    /\ UNCHANGED <<spec_, force_inline_, current_indent_, keys_, retval, replaced>>

NextEsc == CallBasicString

SpecEsc == InitEsc /\ [][NextEsc]_vars

(***************************************************************************)
(* Claims about basic-string escaping.                                     *)
(***************************************************************************)
UpperHexDigit(n) == IF n < 10 THEN 48 + n ELSE 55 + n

\* `\xHH` when the `\x` extension is enabled, `\u00HH` otherwise.
HexEscape(sp, c) ==
    (IF sp.v1_1_0_add_escape_sequence_x THEN <<92, 120>> ELSE <<92, 117, 48, 48>>)
    \o <<UpperHexDigit(c \div 16), UpperHexDigit(c % 16)>>

\* The sets of control bytes the claim names.
InControlSets(c) == c \in (0..8) \cup (10..31) \cup {127}

\* The control bytes that have a short escape: \b, \n, \f and \r.
HasShortEscape(c) == c \in {8, 10, 12, 13}

\* What the claim says of the text t written for the byte c; unchanged is the
\* set of bytes outside the control sets it says are emitted as they are.
ByteRenderedAs(sp, c, t, unchanged) ==
    IF c = 27 /\ sp.v1_1_0_add_escape_sequence_e THEN t = <<92, 101>>
    ELSE IF InControlSets(c) /\ ~HasShortEscape(c) THEN t = HexEscape(sp, c)
    ELSE IF c \in unchanged THEN t = <<c>>
    ELSE t # <<>>

\* The text t is the texts of the bytes of s, one after the other.
RECURSIVE StringRenderedAs(_, _, _, _)
StringRenderedAs(sp, s, t, unchanged) ==
    IF s = <<>> THEN t = <<>>
    ELSE \E n \in 1..Len(t) :
            /\ ByteRenderedAs(sp, Head(s), SubSeq(t, 1, n), unchanged)
            /\ StringRenderedAs(sp, Tail(s), SubSeq(t, n + 1, Len(t)), unchanged)

BasicBody(t) == SubSeq(t, 2, Len(t) - 1)

OutsideControlSets == {c \in Bytes : ~InControlSets(c)}

\* C19: in the basic form, 0x1B is written `\e` when the `\e` extension is
\* enabled; every other control byte of 0x00-0x08, 0x0A-0x1F, 0x7F without a
\* short escape is written `\xHH` when the `\x` extension is enabled and
\* `\u00HH` otherwise, in upper case; every byte outside these sets other
\* than backslash and double quote is written unchanged.
C19_AllOthersUnchanged ==
    StringDone("basic") =>
        /\ result.err = "none"
        /\ StringRenderedAs(spec_, arg.s, BasicBody(result.str),
                            OutsideControlSets \ {92, 34})

\* C19, with the tab among the bytes that are not written unchanged: it is
\* outside the control sets and has the short escape `\t`.
C19_AllOthersButTabUnchanged ==
    StringDone("basic") =>
        /\ result.err = "none"
        /\ StringRenderedAs(spec_, arg.s, BasicBody(result.str),
                            OutsideControlSets \ {92, 34, 9})

\* The bytes 0x1B and 0x7F with the `\e` extension enabled and the `\x`
\* extension disabled: `\e`, then `\u007F` with an upper case hex digit.
C19_Witness ==
    /\ StringDone("basic")
    /\ arg.s = <<27, 127>>
    /\ spec_.v1_1_0_add_escape_sequence_e
    /\ ~spec_.v1_1_0_add_escape_sequence_x
    /\ result.str = <<34, 92, 101, 92, 117, 48, 48, 55, 70, 34>>

(***************************************************************************)
(* Termination of the triple-quote loop of escape_ml_basic_string.  The    *)
(* loop is straight-line code of one thread: once entered, each iteration  *)
(* and the return that follows the last one are taken.                     *)
(***************************************************************************)
SpecStrFair == SpecStr /\ WF_vars(ReplaceStep) /\ WF_vars(ReturnMlBasic)

\* The number of double-quote characters in buf.
QuoteCount(buf) == Cardinality({i \in 1..Len(buf) : buf[i] = 34})

\* The number of places in buf where three double quotes begin.
TripleQuoteCount(buf) ==
    Cardinality({i \in 1..(Len(buf) - 2) :
                    buf[i] = 34 /\ buf[i + 1] = 34 /\ buf[i + 2] = 34})

\* A replacement makes progress: fewer places are left where three quotes
\* begin, and the next one found, if any, lies further right.
ReplacementMakesProgress ==
    /\ TripleQuoteCount(retval') < TripleQuoteCount(retval)
    /\ Find3Quotes(retval') = 0 \/ Find3Quotes(retval') > Find3Quotes(retval)

\* C20: the scan-and-replace loop of the multi-line basic encoder terminates
\* for every input: every replacement makes progress, the number of
\* replacements never exceeds the number of double quotes in the escaped
\* buffer, and a call that entered the loop returns.
C20_ReplaceLoopTerminates ==
    /\ [](pc \in {"scan", "done"} => replaced <= QuoteCount(retval))
    /\ [][ReplaceStep => ReplacementMakesProgress]_vars
    /\ (pc = "scan") ~> (pc = "done" /\ result.err = "none")

\* The loop was left after two replacements in the string of five quotes.
C20_Witness ==
    /\ pc = "done"
    /\ arg.fmt.fmt = "multiline_basic"
    /\ arg.s = <<34, 34, 34, 34, 34>>
    /\ replaced = 2
    /\ retval = <<34, 34, 92, 34, 34, 92, 34>>

(***************************************************************************)
(* Claims about what a call leaves in keys_, current_indent_ and           *)
(* force_inline_.                                                          *)
(***************************************************************************)
\* The place in the log where the dispatch entered at k returned: the first
\* exit after k for the same value.
ExitOf(k) ==
    LET later == {m \in (k + 1)..Len(result.log) :
                     /\ result.log[m].ev = "exit"
                     /\ result.log[m].at = result.log[k].at}
    IN  CHOOSE m \in later : \A j \in later : m <= j

\* C21: when a call returns normally, every dispatch leaves keys_ and
\* current_indent_ as they were when it was entered; at the end of the call
\* keys_ is the key prefix the call was given, current_indent_ is 0 and
\* force_inline_ is false.
C21_FieldsRestored ==
    (TreeDone /\ result.err = "none") =>
        /\ \A k \in Entered :
              /\ \E m \in (k + 1)..Len(result.log) :
                    result.log[m].ev = "exit" /\ result.log[m].at = result.log[k].at
              /\ result.log[ExitOf(k)].keys = result.log[k].keys
              /\ result.log[ExitOf(k)].indent = result.log[k].indent
        /\ keys_ = arg.ks
        /\ current_indent_ = 0
        /\ force_inline_ = FALSE

\* A call with a key prefix that returned normally after a dispatch two
\* levels down, entered with a key pushed and the indent raised, and a
\* dispatch entered with the inline flag set.
C21_Witness ==
    /\ TreeDone
    /\ result.err = "none"
    /\ arg.ks # <<>>
    /\ \E k, j \in Entered :
          /\ Len(result.log[k].at) = 2
          /\ Len(result.log[k].keys) > Len(arg.ks)
          /\ result.log[k].indent > 0
          /\ result.log[j].force_inline

(***************************************************************************)
(* Claims about the entries format_ml_table writes in its second pass.     *)
(***************************************************************************)
\* The positions of the entries a rendered multi-line table body deferred to
\* its second pass.
DeferredEntries ==
    UNION {{p \o <<i>> : i \in {j \in 1..Len(ValueAt(arg.v, p).elems) :
                                   format_later(ValueAt(arg.v, p).elems[j])}}
           : p \in MlTableRendered}

\* What was written for the value at q and the values in it, comment lines
\* and indentation aside.
TextPiecesUnder(q) ==
    {n \in PiecesUnder(q) : result.out[n].t \notin {"comment", "indent"}}

\* The text s is a header, `[...]` or `[[...]]`, whose path begins with the
\* encoded keys of path.
HeaderCarries(s, path) ==
    LET open == IF Len(s) >= 2 /\ s[2] = 91 THEN 2 ELSE 1
        enc  == format_keys(spec_, path)
    IN  /\ s # <<>>
        /\ s[1] = 91
        /\ Len(s) > open + Len(enc)
        /\ SubSeq(s, open + 1, open + Len(enc)) = enc
        /\ s[open + Len(enc) + 1] \in {46, 93}

\* What was written for the entry at q starts with a header that carries the
\* entry's key path.
StartsWithOwnHeader(q) ==
    LET n == CHOOSE m \in TextPiecesUnder(q) : \A j \in TextPiecesUnder(q) : m <= j
    IN  /\ result.out[n].t \in {"table_header", "aot_header"}
        /\ HeaderCarries(result.out[n].s, arg.ks \o KeyPath(arg.v, q))

\* C22: when a call succeeds, whatever was written for an entry a multi-line
\* table body deferred to its second pass starts with a `[...]` or `[[...]]`
\* header that carries the entry's key path; this includes an array of
\* tables with the default hint and comments of its own.
C22_DeferredEntriesStartWithHeader ==
    (TreeDone /\ result.err = "none") =>
        \A q \in DeferredEntries :
            TextPiecesUnder(q) # {} => StartsWithOwnHeader(q)

\* C22 for the deferred entries other than the arrays with the default hint
\* and comments of their own.
C22_UnlessCommentedDefaultArray ==
    (TreeDone /\ result.err = "none") =>
        \A q \in DeferredEntries :
            LET e == ValueAt(arg.v, q)
            IN  (/\ TextPiecesUnder(q) # {}
                 /\ ~(is_array(e) /\ e.fmt.fmt = "default_format" /\ e.com # <<>>))
                => StartsWithOwnHeader(q)

(***************************************************************************)
(* Claims about the keys in the output.                                    *)
(***************************************************************************)
\* The key of the table entry at position q.
KeyOfEntry(q) ==
    ValueAt(arg.v, SubSeq(q, 1, Len(q) - 1)).keys[q[Len(q)]]

\* The text s is what the key encoder gives for key: `""` for the empty key,
\* the key itself only if all of it is an unquoted key, and the key between
\* double quotes, with escapes, otherwise.
IsEncodedKey(s, key) ==
    /\ s = format_key(spec_, key)
    /\ key = <<>> => s = <<34, 34>>
    /\ s = key => IsBareKey(key)
    /\ (key # <<>> /\ ~IsBareKey(key)) => (s[1] = 34 /\ s[Len(s)] = 34)

TrailingKeys(p) == {SubSeq(p, n, Len(p)) : n \in 1..Len(p)}

\* The text between the brackets of a header.
HeaderPath(s) ==
    IF s[2] = 91 THEN SubSeq(s, 3, Len(s) - 3) ELSE SubSeq(s, 2, Len(s) - 2)

\* The piece n of the output, if it holds keys, holds them as the key encoder
\* gives them: the entry's key before ` = `, the keys of the dotted path to
\* the entry joined by `.`, or the keys of the path to the table joined by
\* `.` in a header.
KeysEncodedIn(n) ==
    LET x == result.out[n]
    IN  CASE x.t \in {"key", "inline_key", "raw_key"} ->
                IsEncodedKey(x.s, KeyOfEntry(x.at))
          [] x.t = "dotted_keys" ->
                /\ \E S \in TrailingKeys(arg.ks \o KeyPath(arg.v, x.at)) :
                      x.s = format_keys(spec_, S)
                /\ \A j \in 1..Len(KeyPath(arg.v, x.at)) :
                      IsEncodedKey(format_key(spec_, KeyPath(arg.v, x.at)[j]),
                                   KeyPath(arg.v, x.at)[j])
          [] x.t \in {"table_header", "aot_header"} ->
                HeaderPath(x.s) = format_keys(spec_, arg.ks \o KeyPath(arg.v, x.at))
          [] OTHER -> TRUE

\* C23: when a call succeeds, every key in the output, in every table form
\* and in every header, is the key encoder's result for that key: none is
\* written as it is unless all of it is an unquoted key.
C23_EveryKeyEncoded ==
    (TreeDone /\ result.err = "none") =>
        \A n \in 1..Len(result.out) : KeysEncodedIn(n)

\* C23 for the keys written outside the entries of a multiline_oneline table.
C23_UnlessEntryOfMultilineOneline ==
    (TreeDone /\ result.err = "none") =>
        \A n \in 1..Len(result.out) :
            result.out[n].t # "raw_key" => KeysEncodedIn(n)

====
